---------------------------- MODULE Spec2Model ----------------------------
(***************************************************************************)
(* The connection health-probing engine of the multi-region dashboard:     *)
(* app/database.py (health snapshot, latency loop, load test),             *)
(* app/db_manager_postgres.py (connection test) and app/routers/api.py     *)
(* (multi-target test).                                                    *)
(*                                                                         *)
(* One behaviour is one invocation of one operation.  Every `await` of the *)
(* code is two steps: the operation issues the request (its response is    *)
(* the environment's choice: a value, an error, or no answer at all), and  *)
(* then the response, or the timeout of an enclosing asyncio.wait_for,     *)
(* resumes it.  An await with no wait_for around it and no answer never    *)
(* resumes.                                                                *)
(*                                                                         *)
(* Python values: a str is a sequence of atoms (a literal of the code is   *)
(* one atom, an error message of the driver is a sequence of characters);  *)
(* an optional value is None (the empty tuple) or Some(v) (a 1-tuple); a   *)
(* dict is a function whose DOMAIN is its key set.                         *)
(***************************************************************************)
EXTENDS Integers, Sequences, FiniteSets, TLC

\* Bounds of the model.
MaxTargets == 4
MaxIterations == 2
MaxConcurrent == 2
MaxLatency == 3

None == <<>>
Some(v) == <<v>>

-----------------------------------------------------------------------------
(* Strings *)

\* Error messages the driver may raise (str(e)), as character sequences.
MsgPermissionDenied ==
    <<"p","e","r","m","i","s","s","i","o","n"," ","d","e","n","i","e","d"," ",
      "f","o","r"," ","r","e","l","a","t","i","o","n"," ","x">>
MsgConnectionRefused ==
    <<"c","o","n","n","e","c","t","i","o","n"," ","r","e","f","u","s","e","d">>
Messages == {MsgPermissionDenied, MsgConnectionRefused}

\* str.lower(), on the letters the messages use.
LowerChar(c) ==
    CASE c = "A" -> "a" [] c = "B" -> "b" [] c = "C" -> "c" [] c = "D" -> "d"
      [] c = "E" -> "e" [] c = "F" -> "f" [] c = "G" -> "g" [] c = "H" -> "h"
      [] c = "I" -> "i" [] c = "J" -> "j" [] c = "K" -> "k" [] c = "L" -> "l"
      [] c = "M" -> "m" [] c = "N" -> "n" [] c = "O" -> "o" [] c = "P" -> "p"
      [] c = "Q" -> "q" [] c = "R" -> "r" [] c = "S" -> "s" [] c = "T" -> "t"
      [] c = "U" -> "u" [] c = "V" -> "v" [] c = "W" -> "w" [] c = "X" -> "x"
      [] c = "Y" -> "y" [] c = "Z" -> "z" [] OTHER -> c
\* Mutant: the message is matched as it is.
Lower_Identity(s) == s

Lower(s) == [i \in 1..Len(s) |-> LowerChar(s[i])]

\* Python's `sub in s`.
Contains(s, sub) ==
    \E i \in 0..(Len(s) - Len(sub)) : SubSeq(s, i + 1, i + Len(sub)) = sub

privilege_indicators ==
    << <<"p","e","r","m","i","s","s","i","o","n"," ","d","e","n","i","e","d">>,
       <<"i","n","s","u","f","f","i","c","i","e","n","t"," ",
         "p","r","i","v","i","l","e","g","e">>,
       <<"m","u","s","t"," ","b","e"," ","s","u","p","e","r","u","s","e","r">>,
       <<"a","c","c","e","s","s"," ","d","e","n","i","e","d">>,
       <<"m","u","s","t"," ","b","e"," ","o","w","n","e","r">>,
       <<"p","r","i","v","i","l","e","g","e">>,
       <<"n","o","t"," ","a","u","t","h","o","r","i","z","e","d">> >>

is_privilege_error(error_msg) ==
    LET error_lower == Lower(error_msg)
    IN  \E k \in 1..Len(privilege_indicators) :
            Contains(error_lower, privilege_indicators[k])

\* sep.join(strs)
RECURSIVE Join(_, _)
Join(sep, strs) ==
    IF strs = <<>> THEN <<>>
    ELSE IF Len(strs) = 1 THEN strs[1]
    ELSE strs[1] \o sep \o Join(sep, Tail(strs))

\* "".join(strs): plain concatenation.
RECURSIVE Concat(_)
Concat(strs) == IF strs = <<>> THEN <<>> ELSE strs[1] \o Concat(Tail(strs))

\* str(n) of an integer n.
StrOfInt(n) == <<"str", n>>

\* f"{timeout}" of the default timeout 10.0.
TimeoutText == <<"10.0">>

-----------------------------------------------------------------------------
(* Targets *)

HostRemote == <<"d","b",".","e","x","a","m","p","l","e",".","c","o","m">>
HostLocal == <<"l","o","c","a","l","h","o","s","t">>
\* A remote server whose name tells what it runs.
HostNamedPostgres ==
    <<"P","o","s","t","g","r","e","s","-","e","u",".","e","x","a","m","p","l","e",".","c","o","m">>

\* The DatabaseConnection with id i.  Of every four connections, the stored
\* password of one could not be decrypted (password None) and that of another
\* is empty.
DatabaseConnection(i) ==
    [id |-> i,
     name |-> <<"db", i>>,
     host |-> CASE i % 4 = 2 -> HostRemote
                [] i % 4 = 3 -> HostNamedPostgres
                [] OTHER -> HostLocal,
     port |-> 5432,
     database |-> <<"defaultdb">>,
     username |-> <<"avnadmin">>,
     region |-> IF i % 2 = 0 THEN Some(<<"eu-west-1">>) ELSE None,
     cloud_provider |-> None,
     password |-> CASE i % 4 = 1 -> None
                    [] i % 4 = 0 -> Some(<<>>)
                    [] OTHER -> Some(<<"s3cret">>)]

TargetIds == 1..MaxTargets

\* The hosts taken for local: `local_host in connection.host.lower()`.
local_hosts ==
    << <<"l","o","c","a","l","h","o","s","t">>,
       <<"1","2","7",".","0",".","0",".","1">>,
       <<"p","o","s","t","g","r","e","s">> >>

\* "require" for a host that holds none of them, else None.
ssl_mode(host) ==
    IF \E k \in 1..Len(local_hosts) : Contains(Lower(host), local_hosts[k])
    THEN None
    ELSE Some(<<"require">>)

\* Mutant: `if password is not None:`
HasPassword_NotNone(connection) == connection.password # None
\* `if password:` / `if not password:`
HasPassword(connection) ==
    connection.password # None /\ connection.password # Some(<<>>)

-----------------------------------------------------------------------------
(* Exceptions and awaits *)

TimeoutError == [type |-> "TimeoutError", msg |-> <<>>]
Error(m) == [type |-> "Exception", msg |-> m]

\* A pending await: what is awaited ("connect", "query", "close"), what bounds
\* it ("wait_for": asyncio.wait_for with the caller's timeout; "driver": only
\* asyncpg.connect's own default timeout; "none": nothing), and the response
\* the environment will give: "ok" with val, "err" with msg, or "hang" (no
\* answer, however long the wait).  A connect also has the `ssl` argument of
\* asyncpg.connect: "verify" (ssl=True), "no_verify" (a context with
\* CERT_NONE), "off" (ssl=False).
Await(kind, bound, tag, msg, val) ==
    [kind |-> kind, bound |-> bound, tag |-> tag, msg |-> msg, val |-> val, ssl |-> "none"]
NoAwait == Await("none", "none", "none", <<>>, None)

\* The responses to an await whose "ok" answers carry a value of vals.
Responses(kind, bound, vals) ==
    {Await(kind, bound, "ok", <<>>, v) : v \in vals}
        \cup {Await(kind, bound, "hang", <<>>, None)}
        \cup {Await(kind, bound, "err", m, None) : m \in Messages}

\* The responses to asyncpg.connect(dsn, ssl=...): test_connection_with_password
\* passes ssl=True, the operations of database.py a context that verifies
\* nothing; all pass ssl=False when ssl_mode is None.
Connects(bound, host, encrypted) ==
    {[a EXCEPT !.ssl = IF ssl_mode(host) # None THEN encrypted ELSE "off"] :
        a \in Responses("connect", bound, {None})}

\* Whether the await resumes at all, and the exception it resumes with.
Resumes(a) == a.tag \in {"ok", "err"} \/ (a.tag = "hang" /\ a.bound # "none")
Raised(a) == IF a.tag = "err" THEN Error(a.msg) ELSE TimeoutError

-----------------------------------------------------------------------------
(* State *)

VARIABLES
    op,         \* the operation invoked: "idle" before the call
    target,     \* the DatabaseConnection the operation was called with
    conns,      \* every connection opened so far: "open", "closed", "aborted"
    ret,        \* what the operation gave its caller
    faults,     \* history: the (stage, kind) of every failed await
    h_pc,       \* get_connection_health_metrics: position
    h_sub,      \* ... the sub-query being run
    result,     \* ... the `result` dict under construction
    h_await,    \* ... the pending await
    h_conn,     \* ... index in conns of `conn` (0: none)
    attempts,   \* history: how often each sub-query was issued
    outcome,    \* history: "none", "ok" or "failed" per sub-query
    t_pc,       \* DatabaseManager.test_connection: position
    t_await,    \* ... the pending await
    t_conn,     \* ... index in conns of `conn` (0: none)
    t_row,      \* ... `result`, the row fetched
    t_latency,  \* ... latency_ms before rounding, in microseconds
    t_result,   \* ... how the call ended: a report returned, or an exception
    ta_pc,      \* test_all_databases: position
    connections, \* ... the ids get_all_connections() gave, in its order
    ta_i,       \* ... index in connections of the loop's `conn`
    results,    \* ... the `results` list
    l_pc,       \* measure_connection_latency: position
    l_n,        \* ... `iterations`
    timings,    \* ... the `timings` list, in microseconds
    l_await,    \* ... the pending await
    l_conn,     \* ... index in conns of `conn` (0: none)
    l_exc,      \* ... the exception in flight while the finally clause runs
    ld_pc,      \* run_connection_load_test: position
    ld_n,       \* ... `concurrent`
    p_pc,       \* ... each single_query() task: position
    p_await,    \* ... its pending await
    p_conn,     \* ... index in conns of its `conn` (0: none)
    p_exc,      \* ... the exception in flight while its finally clause runs
    p_out,      \* ... how the task ended: its timing returned, or an exception
    first_exc,  \* ... the first exception a task raised, which gather() raises
    error_msg,  \* _is_privilege_error: the message it is called with
    endpoint,   \* the request an endpoint of routers/api.py serves: its kind and parameters
    response,   \* ... its JSONResponse
    saves,      \* history: every call of a save_*_check, with its result argument
    sw_pc,      \* health_check_all_databases: position
    sw_i,       \* ... index in connections of the loop's `task_data`
    sw_out,     \* ... what the two coroutines handed to gather() have given it
    storage,    \* db_manager.DatabaseManager: the content of connections.json
    m_call,     \* ... the method called last, and its argument
    m_n         \* ... how many methods have been called

hvars == <<h_pc, h_sub, result, h_await, h_conn, attempts, outcome>>
tvars == <<t_pc, t_await, t_conn, t_row, t_latency, t_result>>
avars == <<ta_pc, connections, ta_i, results>>
lvars == <<l_pc, l_n, timings, l_await, l_conn, l_exc>>
pvars == <<ld_pc, ld_n, p_pc, p_await, p_conn, p_exc, p_out, first_exc>>
cvars == <<error_msg>>
evars == <<endpoint, response, saves>>
svars == <<sw_pc, sw_i>>
mvars == <<storage, m_call, m_n>>
vars == <<op, target, conns, ret, sw_out, faults,
          hvars, tvars, avars, lvars, pvars, cvars, evars, svars, mvars>>

NoResponse == [status_code |-> 0]
NoRequest == [kind |-> "none", connection_id |-> 0, count |-> 0]

NotReturned == [status |-> "none"]
Returned(report) == [status |-> "returned", value |-> report]
Escaped(exc) == [status |-> "raised", exc |-> exc]

\* dict.get("success") as a truth value
Success(report) == IF "success" \in DOMAIN report THEN report.success ELSE FALSE

\* A coroutine ends: its caller gets what it gives, and under
\* health_check_all_databases its caller is the gather().
NotGathered == [health |-> NotReturned, latency |-> NotReturned]
Gives(task, out) ==
    IF op = "sweep"
    THEN sw_out' = [sw_out EXCEPT ![task] = out] /\ ret' = ret
    ELSE ret' = out /\ sw_out' = sw_out

\* get_connection_health_metrics and measure_connection_latency run when
\* called on their own, and as the coroutines health_check_all_databases
\* hands to gather().
Runs(o) == op = o \/ (op = "sweep" /\ sw_pc = "gathering")

\* What the servers do with an await.  Under health_check_all_databases a
\* server answers or stays silent, and one answer stands for all: the
\* endpoint reads nothing of a report but its "success", and an await that
\* raises ends a coroutine as a timeout under wait_for does.
Served(S) ==
    IF op = "sweep"
    THEN {a \in S : a.tag = "hang" \/ a = CHOOSE b \in S : b.tag = "ok"}
    ELSE S

Fault(a) == [stage |-> a.kind, kind |-> IF a.tag = "err" THEN "error" ELSE "timeout"]

-----------------------------------------------------------------------------
(* get_connection_health_metrics *)

SubQueries == <<"cache", "conn", "size", "ext", "stat">>
SubQuerySet == {SubQueries[i] : i \in 1..Len(SubQueries)}

Label(s) ==
    CASE s = "cache" -> <<"Cache hit ratio">>
      [] s = "conn" -> <<"Connection stats">>
      [] s = "size" -> <<"Database size">>
      [] s = "ext" -> <<"Extension check">>
      [] s = "stat" -> <<"pg_stat_statements">>

\* What each query can return.  cache: the row's cache_hit_ratio (NULL or a
\* percentage); conn: the three counts; size: pg_size_pretty's text; ext: the
\* EXISTS boolean; stat: the rows, each convertible ("good") or not ("bad").
Rows(s) ==
    CASE s = "cache" -> {None, Some(99)}
      [] s = "conn" -> {[active_connections |-> 1, idle_connections |-> 2,
                         total_connections |-> 3]}
      [] s = "size" -> {<<"8 MB">>}
      [] s = "ext" -> {TRUE, FALSE}
      [] s = "stat" -> {<<>>, <<"good">>, <<"bad", "good">>}

HealthInitialResult(connection) ==
    [success |-> TRUE,
     cache_hit_ratio |-> None,
     active_connections |-> None,
     idle_connections |-> None,
     total_connections |-> None,
     db_size |-> None,
     pg_stat_statements |-> None,
     pg_stat_statements_available |-> FALSE,
     warnings |-> <<>>,
     connection_id |-> Some(StrOfInt(connection.id)),
     connection_name |-> Some(connection.name),
     host |-> Some(connection.host),
     port |-> Some(connection.port),
     database |-> Some(connection.database)]

HealthNoPassword(connection) ==
    [success |-> FALSE,
     error |-> <<"No password provided for database connection">>,
     connection_id |-> connection.id,
     connection_name |-> connection.name]

\* The two outer handlers: except asyncio.TimeoutError, except Exception.
HealthOuterExcept(connection, exc) ==
    IF exc.type = "TimeoutError"
    THEN [success |-> FALSE,
          error |-> <<"Connection timeout after ">> \o TimeoutText \o <<" seconds">>,
          connection_id |-> connection.id,
          connection_name |-> connection.name,
          warnings |-> << <<"Connection timeout">> >>]
    ELSE [success |-> FALSE,
          error |-> exc.msg,
          connection_id |-> connection.id,
          connection_name |-> connection.name,
          warnings |-> << <<"Connection failed: ">> \o exc.msg >>]

\* Mutant: the classifier is not asked.
SubQueryWarning_Unclassified(s, exc) ==
    IF exc.type = "TimeoutError" THEN Label(s) \o <<": query timeout">>
    ELSE Label(s) \o <<": ">> \o exc.msg
\* The warning a sub-query's handlers append.
SubQueryWarning(s, exc) ==
    IF exc.type = "TimeoutError" THEN Label(s) \o <<": query timeout">>
    ELSE IF is_privilege_error(exc.msg)
         THEN Label(s) \o <<": insufficient privileges">>
         ELSE Label(s) \o <<": ">> \o exc.msg

\* The rows of pg_stat_statements that convert; the others are skipped.
ConvertRows(rows) == SelectSeq(rows, LAMBDA r : r = "good")

\* Mutant: the extension check's positive answer already marks
\* pg_stat_statements available.
SubQueryStore_AvailableOnCheck(r, s, val) ==
    CASE s = "cache" ->
            [r EXCEPT !.cache_hit_ratio =
                IF val # None /\ val[1] # 0 THEN Some(val[1]) ELSE Some(0)]
      [] s = "conn" ->
            [r EXCEPT !.active_connections = Some(val.active_connections),
                      !.idle_connections = Some(val.idle_connections),
                      !.total_connections = Some(val.total_connections)]
      [] s = "size" -> [r EXCEPT !.db_size = Some(val)]
      [] s = "ext" -> [r EXCEPT !.pg_stat_statements_available = val]
      [] s = "stat" ->
            [r EXCEPT !.pg_stat_statements = Some(ConvertRows(val)),
                      !.pg_stat_statements_available = TRUE]
\* The assignments after a sub-query's await returned `val`.
SubQueryStore(r, s, val) ==
    CASE s = "cache" ->
            [r EXCEPT !.cache_hit_ratio =
                IF val # None /\ val[1] # 0 THEN Some(val[1]) ELSE Some(0)]
      [] s = "conn" ->
            [r EXCEPT !.active_connections = Some(val.active_connections),
                      !.idle_connections = Some(val.idle_connections),
                      !.total_connections = Some(val.total_connections)]
      [] s = "size" -> [r EXCEPT !.db_size = Some(val)]
      [] s = "ext" ->
            [r EXCEPT !.pg_stat_statements_available = IF val THEN @ ELSE FALSE]
      [] s = "stat" ->
            [r EXCEPT !.pg_stat_statements = Some(ConvertRows(val)),
                      !.pg_stat_statements_available = TRUE]

\* Mutant: the warning is put at the head of the list.
SubQueryFail_Prepend(r, s, exc) ==
    [r EXCEPT !.warnings = <<SubQueryWarning(s, exc)>> \o @,
              !.pg_stat_statements_available =
                  IF s \in {"ext", "stat"} THEN FALSE ELSE @]

\* The handlers of a failed sub-query.
SubQueryFail(r, s, exc) ==
    [r EXCEPT !.warnings = Append(@, SubQueryWarning(s, exc)),
              !.pg_stat_statements_available =
                  IF s \in {"ext", "stat"} THEN FALSE ELSE @]

\* Mutant: db_size is skipped too.
JudgeSkippedKeys_AndDbSize ==
    {"success", "warnings", "pg_stat_statements", "pg_stat_statements_available",
     "connection_id", "connection_name", "host", "port", "database", "db_size"}

\* The keys the final `all(v is None ...)` skips.
JudgeSkippedKeys ==
    {"success", "warnings", "pg_stat_statements", "pg_stat_statements_available",
     "connection_id", "connection_name", "host", "port", "database"}

\* Mutant: any() for all().
NoData_Any(r) == \E k \in DOMAIN r \ JudgeSkippedKeys : r[k] = None

NoData(r) == \A k \in DOMAIN r \ JudgeSkippedKeys : r[k] = None

\* Mutant: the sentence is left out.
HealthErrorText_NoSentence(r) == Join(<<"; ">>, r.warnings)

HealthErrorText(r) ==
    <<"Unable to retrieve any health metrics. ">> \o Join(<<"; ">>, r.warnings)

\* "Only mark as failed if we couldn't get any data at all"
Judge(r) ==
    IF NoData(r)
    THEN [k \in DOMAIN r \cup {"error"} |->
            IF k = "success" THEN FALSE
            ELSE IF k = "error" THEN HealthErrorText(r)
            ELSE r[k]]
    ELSE r

\* Mutant: one try block around all the sub-queries, so the first failure
\* ends them.
AfterSubQuery_AbortOnFailure(s, ok, val) ==
    IF ~ok THEN "judge"
    ELSE CASE s = "cache" -> "conn"
           [] s = "conn" -> "size"
           [] s = "size" -> "ext"
           [] s = "ext" -> IF val = TRUE THEN "stat" ELSE "judge"
           [] s = "stat" -> "judge"

\* The sub-query after s; "stat" runs only `if ext_check:`.
AfterSubQuery(s, ok, val) ==
    CASE s = "cache" -> "conn"
      [] s = "conn" -> "size"
      [] s = "size" -> "ext"
      [] s = "ext" -> IF ok /\ val = TRUE THEN "stat" ELSE "judge"
      [] s = "stat" -> "judge"

InvokeHealth(i) ==
    /\ op = "idle"
    /\ op' = "health"
    /\ target' = DatabaseConnection(i)
    /\ result' = HealthInitialResult(DatabaseConnection(i))
    /\ h_pc' = "start"
    /\ UNCHANGED <<conns, ret, sw_out, faults, h_sub, h_await, h_conn, attempts, outcome>>
    /\ UNCHANGED <<tvars, avars, lvars, pvars>>
    /\ UNCHANGED <<cvars, mvars, svars>>

\* The operation is called on its own, not by an endpoint.
CallHealth(i) == InvokeHealth(i) /\ UNCHANGED evars

\* `if password:` ... asyncio.wait_for(asyncpg.connect(...), timeout)
HealthStart ==
    /\ Runs("health") /\ h_pc = "start"
    /\ IF HasPassword(target)
       THEN /\ h_pc' = "connecting"
            /\ h_await' \in Served(Connects("wait_for", target.host, "no_verify"))
            /\ UNCHANGED <<ret, sw_out>>
       ELSE /\ h_pc' = "done"
            /\ Gives("health", Returned(HealthNoPassword(target)))
            /\ h_await' = h_await
    /\ UNCHANGED <<op, target, conns, faults, h_sub, result, h_conn, attempts, outcome>>
    /\ UNCHANGED <<tvars, avars, lvars, pvars>>
    /\ UNCHANGED <<cvars, mvars, svars, evars>>

HealthConnected ==
    /\ Runs("health") /\ h_pc = "connecting" /\ Resumes(h_await)
    /\ h_await' = NoAwait
    /\ IF h_await.tag = "ok"
       THEN /\ conns' = Append(conns, "open")
            /\ h_conn' = Len(conns) + 1
            /\ h_pc' = "query"
            /\ h_sub' = "cache"
            /\ UNCHANGED <<ret, sw_out, faults>>
       ELSE /\ Gives("health", Returned(HealthOuterExcept(target, Raised(h_await))))
            /\ faults' = faults \cup {Fault(h_await)}
            /\ h_pc' = "done"
            /\ UNCHANGED <<conns, h_conn, h_sub>>
    /\ UNCHANGED <<op, target, result, attempts, outcome>>
    /\ UNCHANGED <<tvars, avars, lvars, pvars>>
    /\ UNCHANGED <<cvars, mvars, svars, evars>>

\* Mutant: the sub-queries are awaited without asyncio.wait_for.
HealthIssue_Unbounded ==
    /\ Runs("health") /\ h_pc = "query"
    /\ h_pc' = "waiting"
    /\ attempts' = [attempts EXCEPT ![h_sub] = @ + 1]
    /\ h_await' \in Served(Responses("query", "none", Rows(h_sub)))
    /\ UNCHANGED <<op, target, conns, ret, sw_out, faults, h_sub, result, h_conn, outcome>>
    /\ UNCHANGED <<tvars, avars, lvars, pvars>>
    /\ UNCHANGED <<cvars, mvars, svars, evars>>
\* asyncio.wait_for(conn.fetchrow / fetchval / fetch (...), timeout=timeout)
HealthIssue ==
    /\ Runs("health") /\ h_pc = "query"
    /\ h_pc' = "waiting"
    /\ attempts' = [attempts EXCEPT ![h_sub] = @ + 1]
    /\ h_await' \in Served(Responses("query", "wait_for", Rows(h_sub)))
    /\ UNCHANGED <<op, target, conns, ret, sw_out, faults, h_sub, result, h_conn, outcome>>
    /\ UNCHANGED <<tvars, avars, lvars, pvars>>
    /\ UNCHANGED <<cvars, mvars, svars, evars>>

HealthResolve ==
    /\ Runs("health") /\ h_pc = "waiting" /\ Resumes(h_await)
    /\ h_await' = NoAwait
    /\ LET ok == h_await.tag = "ok"
           next == AfterSubQuery(h_sub, ok, h_await.val)
       IN  /\ IF ok
              THEN /\ result' = SubQueryStore(result, h_sub, h_await.val)
                   /\ outcome' = [outcome EXCEPT ![h_sub] = "ok"]
                   /\ faults' = faults
              ELSE /\ result' = SubQueryFail(result, h_sub, Raised(h_await))
                   /\ outcome' = [outcome EXCEPT ![h_sub] = "failed"]
                   /\ faults' = faults \cup {Fault(h_await)}
           /\ IF next = "judge"
              THEN h_pc' = "judge" /\ h_sub' = h_sub
              ELSE h_pc' = "query" /\ h_sub' = next
    /\ UNCHANGED <<op, target, conns, ret, sw_out, h_conn, attempts>>
    /\ UNCHANGED <<tvars, avars, lvars, pvars>>
    /\ UNCHANGED <<cvars, mvars, svars, evars>>

\* The final check, `return result`, and the finally clause's conn.close().
HealthJudge ==
    /\ Runs("health") /\ h_pc = "judge"
    /\ result' = Judge(result)
    /\ h_pc' = "closing"
    /\ h_await' \in Served(Responses("close", "none", {None}))
    /\ UNCHANGED <<op, target, conns, ret, sw_out, faults, h_sub, h_conn, attempts, outcome>>
    /\ UNCHANGED <<tvars, avars, lvars, pvars>>
    /\ UNCHANGED <<cvars, mvars, svars, evars>>

HealthClosed ==
    /\ Runs("health") /\ h_pc = "closing" /\ Resumes(h_await)
    /\ h_await' = NoAwait
    /\ h_pc' = "done"
    /\ IF h_await.tag = "ok"
       THEN /\ conns' = [conns EXCEPT ![h_conn] = "closed"]
            /\ Gives("health", Returned(result))
            /\ faults' = faults
       ELSE /\ conns' = [conns EXCEPT ![h_conn] = "aborted"]
            /\ Gives("health", Returned(HealthOuterExcept(target, Raised(h_await))))
            /\ faults' = faults \cup {Fault(h_await)}
    /\ UNCHANGED <<op, target, h_sub, result, h_conn, attempts, outcome>>
    /\ UNCHANGED <<tvars, avars, lvars, pvars>>
    /\ UNCHANGED <<cvars, mvars, svars, evars>>

HealthNext ==
    \/ \E i \in TargetIds : CallHealth(i)
    \/ HealthStart
    \/ HealthConnected
    \/ HealthIssue
    \/ HealthResolve
    \/ HealthJudge
    \/ HealthClosed

-----------------------------------------------------------------------------
(* Elapsed times *)

\* The values time.perf_counter() differences take, in microseconds.
Times == {1000 * k + 4 * (k % 2) : k \in 1..MaxLatency}
\* The durations an attempt may take (one of them under
\* health_check_all_databases).
Elapsed == IF op = "sweep" THEN {CHOOSE t \in Times : TRUE} ELSE Times

\* num / den rounded to the nearest integer, halves to the even one.
RoundDiv(num, den) ==
    LET q == num \div den
        r == num % den
    IN  IF 2 * r < den THEN q
        ELSE IF 2 * r > den THEN q + 1
        ELSE IF q % 2 = 0 THEN q ELSE q + 1

\* round(ms, 2) of num / den microseconds, in hundredths of a millisecond.
Round2(num, den) == RoundDiv(num, den * 10)

-----------------------------------------------------------------------------
(* DatabaseManager.test_connection, test_connection_with_password *)

TestNoPassword ==
    [success |-> FALSE, error |-> <<"No password available for connection">>]

\* The row of the diagnostic query.
ServerRow ==
    [server_ip |-> <<"10.0.0.7">>, backend_pid |-> 4242, pg_version |-> <<"PostgreSQL 16">>]

TestSuccess(row, latency) ==
    [success |-> TRUE,
     server_ip |-> row.server_ip,
     backend_pid |-> row.backend_pid,
     pg_version |-> row.pg_version,
     latency_ms |-> Round2(latency, 1)]

\* Mutant: the handler catches timeouts only.
TestExcept_TimeoutOnly(exc) ==
    IF exc.type = "TimeoutError"
    THEN Returned([success |-> FALSE, error |-> exc.msg])
    ELSE Escaped(exc)

\* `except Exception as e: return {"success": False, "error": str(e)}`
TestExcept(exc) == Returned([success |-> FALSE, error |-> exc.msg])

\* `if not connection.password`, else _test() up to `await asyncpg.connect`.
TestStart ==
    /\ t_pc = "start"
    /\ IF HasPassword(target)
       THEN /\ t_pc' = "connecting"
            /\ t_await' \in Connects("driver", target.host, "verify")
            /\ t_result' = t_result
       ELSE /\ t_pc' = "done"
            /\ t_result' = Returned(TestNoPassword)
            /\ t_await' = t_await
    /\ UNCHANGED <<op, target, conns, ret, sw_out, faults, t_conn, t_row, t_latency>>
    /\ UNCHANGED <<hvars, avars, lvars, pvars>>
    /\ UNCHANGED <<cvars, mvars, svars, evars>>

\* The connect resumes; on success, `await conn.fetchrow(...)`.
TestConnected ==
    /\ t_pc = "connecting" /\ Resumes(t_await)
    /\ IF t_await.tag = "ok"
       THEN /\ conns' = Append(conns, "open")
            /\ t_conn' = Len(conns) + 1
            /\ t_pc' = "querying"
            /\ t_await' \in Responses("query", "none", {ServerRow})
            /\ UNCHANGED <<t_result, faults>>
       ELSE /\ t_result' = TestExcept(Raised(t_await))
            /\ faults' = faults \cup {Fault(t_await)}
            /\ t_pc' = "done"
            /\ t_await' = NoAwait
            /\ UNCHANGED <<conns, t_conn>>
    /\ UNCHANGED <<op, target, ret, sw_out, t_row, t_latency>>
    /\ UNCHANGED <<hvars, avars, lvars, pvars>>
    /\ UNCHANGED <<cvars, mvars, svars, evars>>

\* The query resumes; on success, latency_ms and `await conn.close()`.  An
\* exception goes to the handler, past conn.close().
TestQueried ==
    /\ t_pc = "querying" /\ Resumes(t_await)
    /\ IF t_await.tag = "ok"
       THEN /\ t_row' = t_await.val
            /\ t_latency' \in Times
            /\ t_pc' = "closing"
            /\ t_await' \in Responses("close", "none", {None})
            /\ UNCHANGED <<t_result, faults>>
       ELSE /\ t_result' = TestExcept(Raised(t_await))
            /\ faults' = faults \cup {Fault(t_await)}
            /\ t_pc' = "done"
            /\ t_await' = NoAwait
            /\ UNCHANGED <<t_row, t_latency>>
    /\ UNCHANGED <<op, target, conns, ret, sw_out, t_conn>>
    /\ UNCHANGED <<hvars, avars, lvars, pvars>>
    /\ UNCHANGED <<cvars, mvars, svars, evars>>

\* The close resumes: the success report, or the handler.
TestClosed ==
    /\ t_pc = "closing" /\ Resumes(t_await)
    /\ t_pc' = "done"
    /\ t_await' = NoAwait
    /\ IF t_await.tag = "ok"
       THEN /\ conns' = [conns EXCEPT ![t_conn] = "closed"]
            /\ t_result' = Returned(TestSuccess(t_row, t_latency))
            /\ faults' = faults
       ELSE /\ conns' = [conns EXCEPT ![t_conn] = "aborted"]
            /\ t_result' = TestExcept(Raised(t_await))
            /\ faults' = faults \cup {Fault(t_await)}
    /\ UNCHANGED <<op, target, ret, sw_out, t_conn, t_row, t_latency>>
    /\ UNCHANGED <<hvars, avars, lvars, pvars>>
    /\ UNCHANGED <<cvars, mvars, svars, evars>>

\* A caller awaits db_manager.test_connection(DatabaseConnection(i)).
InvokeTest(i) ==
    /\ op = "idle"
    /\ op' = "test"
    /\ target' = DatabaseConnection(i)
    /\ t_pc' = "start"
    /\ UNCHANGED <<conns, ret, sw_out, faults, t_await, t_conn, t_row, t_latency, t_result>>
    /\ UNCHANGED <<hvars, avars, lvars, pvars>>
    /\ UNCHANGED <<cvars, mvars, svars>>

\* The operation is called on its own, not by an endpoint.
CallTest(i) == InvokeTest(i) /\ UNCHANGED evars

\* The call ends: its caller has the report, or the exception.
TestReturn ==
    /\ op = "test" /\ t_pc = "done" /\ ret = NotReturned
    /\ ret' = t_result /\ sw_out' = sw_out
    /\ UNCHANGED <<op, target, conns, faults, tvars, hvars, avars, lvars, pvars>>
    /\ UNCHANGED <<cvars, mvars, svars, evars>>

TestNext ==
    \/ \E i \in TargetIds : CallTest(i)
    \/ TestStart
    \/ TestConnected
    \/ TestQueried
    \/ TestClosed
    \/ TestReturn

-----------------------------------------------------------------------------
(* test_all_databases *)

\* One element of `results`.
TestAllEntry(connection, test_result) ==
    [id |-> StrOfInt(connection.id),
     name |-> connection.name,
     host |-> connection.host,
     port |-> connection.port,
     region |-> connection.region,
     cloud_provider |-> connection.cloud_provider,
     test_result |-> test_result]

\* The loop's `except Exception as e` around the call.
TestAllExcept(exc) == [success |-> FALSE, error |-> exc.msg]

\* len([r for r in results if r["test_result"].get("success", False)])
CountSuccessful(rs) == Cardinality({i \in 1..Len(rs) : Success(rs[i].test_result)})
CountFailed(rs) == Cardinality({i \in 1..Len(rs) : ~Success(rs[i].test_result)})

TestAllResponse(conns_, rs) ==
    [results |-> rs,
     total_databases |-> Len(conns_),
     successful_tests |-> CountSuccessful(rs),
     failed_tests |-> CountFailed(rs)]

\* connections = await db_manager.get_all_connections()
CallTestAll(n) ==
    /\ op = "idle"
    /\ op' = "testall"
    /\ connections' = [i \in 1..n |-> i]
    /\ ta_i' = 1
    /\ ta_pc' = "loop"
    /\ results' = <<>>
    /\ UNCHANGED <<target, conns, ret, sw_out, faults, tvars, hvars, lvars, pvars>>
    /\ UNCHANGED <<cvars, mvars, svars, evars>>

\* `for conn in connections:` the next call, or the response after the last.
TestAllStep ==
    /\ op = "testall" /\ ta_pc = "loop"
    /\ IF ta_i <= Len(connections)
       THEN /\ target' = DatabaseConnection(connections[ta_i])
            /\ t_pc' = "start"
            /\ t_conn' = 0
            /\ t_result' = NotReturned
            /\ ta_pc' = "testing"
            /\ UNCHANGED <<ret, sw_out>>
       ELSE /\ ret' = Returned(TestAllResponse(connections, results)) /\ sw_out' = sw_out
            /\ ta_pc' = "done"
            /\ UNCHANGED <<target, t_pc, t_conn, t_result>>
    /\ UNCHANGED <<op, conns, faults, t_await, t_row, t_latency, connections, ta_i, results>>
    /\ UNCHANGED <<hvars, lvars, pvars>>
    /\ UNCHANGED <<cvars, mvars, svars, evars>>

\* The call of this iteration ended: results.append(...).
TestAllCollect ==
    /\ op = "testall" /\ ta_pc = "testing" /\ t_pc = "done"
    /\ results' = Append(results,
            TestAllEntry(target,
                IF t_result.status = "returned" THEN t_result.value
                ELSE TestAllExcept(t_result.exc)))
    /\ ta_i' = ta_i + 1
    /\ ta_pc' = "loop"
    /\ t_pc' = "none"
    /\ UNCHANGED <<op, target, conns, ret, sw_out, faults, t_await, t_conn, t_row, t_latency, t_result,
                   connections>>
    /\ UNCHANGED <<hvars, lvars, pvars>>
    /\ UNCHANGED <<cvars, mvars, svars, evars>>

TestAllNext ==
    \/ \E n \in 0..MaxTargets : CallTestAll(n)
    \/ TestAllStep
    \/ TestAllCollect

-----------------------------------------------------------------------------
(* measure_connection_latency *)

RECURSIVE Sum(_)
Sum(ts) == IF ts = <<>> THEN 0 ELSE ts[1] + Sum(Tail(ts))
\* Mutant: the first timing stands for the smallest.
Min_First(ts) == ts[1]

Min(ts) == CHOOSE x \in {ts[i] : i \in 1..Len(ts)} : \A i \in 1..Len(ts) : x <= ts[i]
Max(ts) == CHOOSE x \in {ts[i] : i \in 1..Len(ts)} : \A i \in 1..Len(ts) : x >= ts[i]

\* min(), max() and the division by len() raise this on an empty list.
EmptySequenceError == Error(<<"min() arg is an empty sequence">>)

ProbeNoPassword(connection) ==
    [success |-> FALSE,
     error |-> <<"No password provided for database connection">>,
     connection_id |-> connection.id,
     connection_name |-> connection.name]

\* The report of the handlers `except asyncio.TimeoutError`, `except Exception`
\* of measure_connection_latency and of run_connection_load_test.
ProbeFailure(connection, exc) ==
    [success |-> FALSE,
     error |-> IF exc.type = "TimeoutError"
               THEN <<"Connection timeout after ">> \o TimeoutText \o <<" seconds">>
               ELSE exc.msg,
     connection_id |-> connection.id,
     connection_name |-> connection.name]

\* Mutant: the timings are reported last iteration first.
LatencySuccess_Reversed(connection, n, ts) ==
    [success |-> TRUE,
     iterations |-> n,
     min_ms |-> Round2(Min(ts), 1),
     max_ms |-> Round2(Max(ts), 1),
     avg_ms |-> Round2(Sum(ts), Len(ts)),
     timings |-> [i \in 1..Len(ts) |-> Round2(ts[Len(ts) + 1 - i], 1)],
     connection_id |-> connection.id,
     connection_name |-> connection.name]
LatencySuccess(connection, n, ts) ==
    [success |-> TRUE,
     iterations |-> n,
     min_ms |-> Round2(Min(ts), 1),
     max_ms |-> Round2(Max(ts), 1),
     avg_ms |-> Round2(Sum(ts), Len(ts)),
     timings |-> [i \in 1..Len(ts) |-> Round2(ts[i], 1)],
     connection_id |-> connection.id,
     connection_name |-> connection.name]

\* Mutant: only the timeout handler is there.
LatencyExcept_TimeoutOnly(connection, exc) ==
    IF exc.type = "TimeoutError"
    THEN Returned(ProbeFailure(connection, exc))
    ELSE Escaped(exc)

\* Mutant: the failed attempt is left out and the timings taken so far are
\* reported.
LatencyExcept_Partial(connection, exc) ==
    IF timings # <<>>
    THEN Returned(LatencySuccess(connection, Len(timings), timings))
    ELSE Returned(ProbeFailure(connection, exc))

LatencyExcept(connection, exc) == Returned(ProbeFailure(connection, exc))

InvokeLatency(i, n) ==
    /\ op = "idle"
    /\ op' = "latency"
    /\ target' = DatabaseConnection(i)
    /\ l_n' = n
    /\ l_pc' = "start"
    /\ UNCHANGED <<conns, ret, sw_out, faults, timings, l_await, l_conn, l_exc>>
    /\ UNCHANGED <<hvars, tvars, avars, pvars>>
    /\ UNCHANGED <<cvars, mvars, svars>>

\* The operation is called on its own, not by an endpoint.
CallLatency(i, n) == InvokeLatency(i, n) /\ UNCHANGED evars

\* `if not password: return {...}`, else `timings = []`
LatencyStart ==
    /\ Runs("latency") /\ l_pc = "start"
    /\ IF HasPassword(target)
       THEN l_pc' = "loop" /\ UNCHANGED <<ret, sw_out>>
       ELSE l_pc' = "done" /\ Gives("latency", Returned(ProbeNoPassword(target)))
    /\ timings' = <<>>
    /\ UNCHANGED <<op, target, conns, faults, l_n, l_await, l_conn, l_exc>>
    /\ UNCHANGED <<hvars, tvars, avars, pvars>>
    /\ UNCHANGED <<cvars, mvars, svars, evars>>

\* `for _ in range(iterations):` the next connect, or the report after the
\* last iteration.
LatencyLoop ==
    /\ Runs("latency") /\ l_pc = "loop"
    /\ IF Len(timings) < l_n
       THEN /\ l_pc' = "connecting"
            /\ l_await' \in Served(Connects("wait_for", target.host, "no_verify"))
            /\ UNCHANGED <<ret, sw_out>>
       ELSE /\ l_pc' = "done"
            /\ Gives("latency", IF timings = <<>>
                                 THEN LatencyExcept(target, EmptySequenceError)
                                 ELSE Returned(LatencySuccess(target, l_n, timings)))
            /\ l_await' = l_await
    /\ UNCHANGED <<op, target, conns, faults, l_n, timings, l_conn, l_exc>>
    /\ UNCHANGED <<hvars, tvars, avars, pvars>>
    /\ UNCHANGED <<cvars, mvars, svars, evars>>

\* The connect resumes; on success, wait_for(conn.fetchval("SELECT 1")).
LatencyConnected ==
    /\ Runs("latency") /\ l_pc = "connecting" /\ Resumes(l_await)
    /\ IF l_await.tag = "ok"
       THEN /\ conns' = Append(conns, "open")
            /\ l_conn' = Len(conns) + 1
            /\ l_pc' = "querying"
            /\ l_await' \in Served(Responses("query", "wait_for", {1}))
            /\ UNCHANGED <<ret, sw_out, faults>>
       ELSE /\ Gives("latency", LatencyExcept(target, Raised(l_await)))
            /\ faults' = faults \cup {Fault(l_await)}
            /\ l_pc' = "done"
            /\ l_await' = NoAwait
            /\ UNCHANGED <<conns, l_conn>>
    /\ UNCHANGED <<op, target, l_n, timings, l_exc>>
    /\ UNCHANGED <<hvars, tvars, avars, pvars>>
    /\ UNCHANGED <<cvars, mvars, svars, evars>>

\* Mutant: conn.close() stands after the query, not in a finally clause.
LatencyQueried_NoFinally ==
    /\ Runs("latency") /\ l_pc = "querying" /\ Resumes(l_await)
    /\ IF l_await.tag = "ok"
       THEN /\ l_pc' = "closing"
            /\ l_await' \in Served(Responses("close", "none", {None}))
            /\ UNCHANGED <<ret, sw_out, faults>>
       ELSE /\ l_pc' = "done"
            /\ l_await' = NoAwait
            /\ faults' = faults \cup {Fault(l_await)}
            /\ Gives("latency", LatencyExcept(target, Raised(l_await)))
    /\ UNCHANGED <<op, target, conns, l_n, timings, l_conn, l_exc>>
    /\ UNCHANGED <<hvars, tvars, avars, pvars>>
    /\ UNCHANGED <<cvars, mvars, svars, evars>>
\* The query resumes, with its value or an exception: `finally: conn.close()`.
LatencyQueried ==
    /\ Runs("latency") /\ l_pc = "querying" /\ Resumes(l_await)
    /\ l_exc' = IF l_await.tag = "ok" THEN None ELSE Some(Raised(l_await))
    /\ faults' = IF l_await.tag = "ok" THEN faults ELSE faults \cup {Fault(l_await)}
    /\ l_pc' = "closing"
    /\ l_await' \in Served(Responses("close", "none", {None}))
    /\ UNCHANGED <<op, target, conns, ret, sw_out, l_n, timings, l_conn>>
    /\ UNCHANGED <<hvars, tvars, avars, pvars>>
    /\ UNCHANGED <<cvars, mvars, svars, evars>>

\* The close resumes: timings.append(...), or the exception in flight (the
\* close's own, if it raised) reaches the handlers.
LatencyClosed ==
    /\ Runs("latency") /\ l_pc = "closing" /\ Resumes(l_await)
    /\ l_await' = NoAwait
    /\ l_exc' = None
    /\ IF l_await.tag = "ok"
       THEN /\ conns' = [conns EXCEPT ![l_conn] = "closed"]
            /\ faults' = faults
            /\ IF l_exc = None
               THEN /\ \E t \in Elapsed : timings' = Append(timings, t)
                    /\ l_pc' = "loop"
                    /\ UNCHANGED <<ret, sw_out>>
               ELSE /\ Gives("latency", LatencyExcept(target, l_exc[1]))
                    /\ l_pc' = "done"
                    /\ timings' = timings
       ELSE /\ conns' = [conns EXCEPT ![l_conn] = "aborted"]
            /\ faults' = faults \cup {Fault(l_await)}
            /\ Gives("latency", LatencyExcept(target, Raised(l_await)))
            /\ l_pc' = "done"
            /\ timings' = timings
    /\ UNCHANGED <<op, target, l_n, l_conn>>
    /\ UNCHANGED <<hvars, tvars, avars, pvars>>
    /\ UNCHANGED <<cvars, mvars, svars, evars>>

LatencyNext ==
    \/ \E i \in TargetIds, n \in 0..MaxIterations : CallLatency(i, n)
    \/ LatencyStart
    \/ LatencyLoop
    \/ LatencyConnected
    \/ LatencyQueried
    \/ LatencyClosed

-----------------------------------------------------------------------------
(* run_connection_load_test *)

Probes == 1..MaxConcurrent
Tasks == 1..ld_n

\* Mutant: only the timeout handler is there.
LoadExcept_TimeoutOnly(connection, exc) ==
    IF exc.type = "TimeoutError"
    THEN Returned(ProbeFailure(connection, exc))
    ELSE Escaped(exc)

LoadExcept(connection, exc) == Returned(ProbeFailure(connection, exc))

\* Mutant: the division by 1000 is forgotten.
QueriesPerSecond_PerMs(concurrent, total_time) == RoundDiv(100000 * concurrent, total_time)

\* round(concurrent / (total_time / 1000), 2), in hundredths of a query per
\* second; total_time is in microseconds here.
QueriesPerSecond(concurrent, total_time) == RoundDiv(100000000 * concurrent, total_time)

LoadSuccess(connection, concurrent, ts, total_time) ==
    [success |-> TRUE,
     concurrent |-> concurrent,
     min_ms |-> Round2(Min(ts), 1),
     max_ms |-> Round2(Max(ts), 1),
     avg_ms |-> Round2(Sum(ts), Len(ts)),
     total_time_ms |-> Round2(total_time, 1),
     queries_per_second |-> QueriesPerSecond(concurrent, total_time),
     connection_id |-> connection.id,
     connection_name |-> connection.name]

InvokeLoad(i, c) ==
    /\ op = "idle"
    /\ op' = "load"
    /\ target' = DatabaseConnection(i)
    /\ ld_n' = c
    /\ ld_pc' = "start"
    /\ UNCHANGED <<conns, ret, sw_out, faults, p_pc, p_await, p_conn, p_exc, p_out, first_exc>>
    /\ UNCHANGED <<hvars, tvars, avars, lvars>>
    /\ UNCHANGED <<cvars, mvars, svars>>

\* The operation is called on its own, not by an endpoint.
CallLoad(i, c) == InvokeLoad(i, c) /\ UNCHANGED evars

\* `if not password: return {...}`, else the tasks are made and
\* `await asyncio.gather(*tasks)` schedules them.
LoadStart ==
    /\ op = "load" /\ ld_pc = "start"
    /\ IF HasPassword(target)
       THEN /\ ld_pc' = "gathering"
            /\ p_pc' = [i \in Probes |-> IF i <= ld_n THEN "created" ELSE "none"]
            /\ UNCHANGED <<ret, sw_out>>
       ELSE /\ ld_pc' = "done"
            /\ ret' = Returned(ProbeNoPassword(target)) /\ sw_out' = sw_out
            /\ p_pc' = p_pc
    /\ UNCHANGED <<op, target, conns, faults, ld_n, p_await, p_conn, p_exc, p_out, first_exc>>
    /\ UNCHANGED <<hvars, tvars, avars, lvars>>
    /\ UNCHANGED <<cvars, mvars, svars, evars>>

\* Task i runs to its first await, the connect.  The event loop starts the
\* tasks in the order gather() scheduled them.
ProbeStart(i) ==
    /\ op = "load" /\ p_pc[i] = "created"
    /\ \A j \in 1..(i - 1) : p_pc[j] # "created"
    /\ p_pc' = [p_pc EXCEPT ![i] = "connecting"]
    /\ \E a \in Connects("wait_for", target.host, "no_verify") :
            p_await' = [p_await EXCEPT ![i] = a]
    /\ UNCHANGED <<op, target, conns, ret, sw_out, faults, ld_pc, ld_n, p_conn, p_exc, p_out, first_exc>>
    /\ UNCHANGED <<hvars, tvars, avars, lvars>>
    /\ UNCHANGED <<cvars, mvars, svars, evars>>

\* Task i ends with exception exc.
ProbeRaises(i, exc) ==
    /\ p_out' = [p_out EXCEPT ![i] = Escaped(exc)]
    /\ first_exc' = IF first_exc = None THEN Some(exc) ELSE first_exc

ProbeConnected(i) ==
    /\ op = "load" /\ p_pc[i] = "connecting" /\ Resumes(p_await[i])
    /\ IF p_await[i].tag = "ok"
       THEN /\ conns' = Append(conns, "open")
            /\ p_conn' = [p_conn EXCEPT ![i] = Len(conns) + 1]
            /\ p_pc' = [p_pc EXCEPT ![i] = "querying"]
            /\ \E a \in Responses("query", "wait_for", {1}) :
                    p_await' = [p_await EXCEPT ![i] = a]
            /\ UNCHANGED <<faults, p_out, first_exc>>
       ELSE /\ ProbeRaises(i, Raised(p_await[i]))
            /\ faults' = faults \cup {Fault(p_await[i])}
            /\ p_pc' = [p_pc EXCEPT ![i] = "done"]
            /\ p_await' = [p_await EXCEPT ![i] = NoAwait]
            /\ UNCHANGED <<conns, p_conn>>
    /\ UNCHANGED <<op, target, ret, sw_out, ld_pc, ld_n, p_exc>>
    /\ UNCHANGED <<hvars, tvars, avars, lvars>>
    /\ UNCHANGED <<cvars, mvars, svars, evars>>

ProbeQueried(i) ==
    /\ op = "load" /\ p_pc[i] = "querying" /\ Resumes(p_await[i])
    /\ p_exc' = [p_exc EXCEPT ![i] =
                    IF p_await[i].tag = "ok" THEN None ELSE Some(Raised(p_await[i]))]
    /\ faults' = IF p_await[i].tag = "ok" THEN faults ELSE faults \cup {Fault(p_await[i])}
    /\ p_pc' = [p_pc EXCEPT ![i] = "closing"]
    /\ \E a \in Responses("close", "none", {None}) :
            p_await' = [p_await EXCEPT ![i] = a]
    /\ UNCHANGED <<op, target, conns, ret, sw_out, ld_pc, ld_n, p_conn, p_out, first_exc>>
    /\ UNCHANGED <<hvars, tvars, avars, lvars>>
    /\ UNCHANGED <<cvars, mvars, svars, evars>>

ProbeClosed(i) ==
    /\ op = "load" /\ p_pc[i] = "closing" /\ Resumes(p_await[i])
    /\ p_await' = [p_await EXCEPT ![i] = NoAwait]
    /\ p_exc' = [p_exc EXCEPT ![i] = None]
    /\ p_pc' = [p_pc EXCEPT ![i] = "done"]
    /\ IF p_await[i].tag = "ok"
       THEN /\ conns' = [conns EXCEPT ![p_conn[i]] = "closed"]
            /\ faults' = faults
            /\ IF p_exc[i] = None
               THEN /\ \E t \in Times : p_out' = [p_out EXCEPT ![i] = Returned(t)]
                    /\ first_exc' = first_exc
               ELSE ProbeRaises(i, p_exc[i][1])
       ELSE /\ conns' = [conns EXCEPT ![p_conn[i]] = "aborted"]
            /\ faults' = faults \cup {Fault(p_await[i])}
            /\ ProbeRaises(i, Raised(p_await[i]))
    /\ UNCHANGED <<op, target, ret, sw_out, ld_pc, ld_n, p_conn>>
    /\ UNCHANGED <<hvars, tvars, avars, lvars>>
    /\ UNCHANGED <<cvars, mvars, svars, evars>>

\* gather() raises the first exception of a task as soon as that task has
\* ended; the other tasks go on.  Every task has started by then.
GatherRaises ==
    /\ op = "load" /\ ld_pc = "gathering"
    /\ first_exc # None
    /\ \A i \in Tasks : p_pc[i] # "created"
    /\ ret' = LoadExcept(target, first_exc[1]) /\ sw_out' = sw_out
    /\ ld_pc' = "done"
    /\ UNCHANGED <<op, target, conns, faults, ld_n, p_pc, p_await, p_conn, p_exc, p_out,
                   first_exc>>
    /\ UNCHANGED <<hvars, tvars, avars, lvars>>
    /\ UNCHANGED <<cvars, mvars, svars, evars>>

\* gather() returns the timings once every task has returned one; the wall
\* clock total is no less than any of them.
GatherReturns ==
    /\ op = "load" /\ ld_pc = "gathering"
    /\ \A i \in Tasks : p_out[i].status = "returned"
    /\ LET ts == [i \in Tasks |-> p_out[i].value]
       IN  IF ts = <<>>
           THEN ret' = LoadExcept(target, EmptySequenceError) /\ sw_out' = sw_out
           ELSE \E total_time \in Times :
                    /\ total_time >= Max(ts)
                    /\ ret' = Returned(LoadSuccess(target, ld_n, ts, total_time)) /\ sw_out' = sw_out
    /\ ld_pc' = "done"
    /\ UNCHANGED <<op, target, conns, faults, ld_n, p_pc, p_await, p_conn, p_exc, p_out,
                   first_exc>>
    /\ UNCHANGED <<hvars, tvars, avars, lvars>>
    /\ UNCHANGED <<cvars, mvars, svars, evars>>

LoadNext ==
    \/ \E i \in TargetIds, c \in 0..MaxConcurrent : CallLoad(i, c)
    \/ LoadStart
    \/ \E i \in Probes : ProbeStart(i)
    \/ \E i \in Probes : ProbeConnected(i)
    \/ \E i \in Probes : ProbeQueried(i)
    \/ \E i \in Probes : ProbeClosed(i)
    \/ GatherRaises
    \/ GatherReturns

-----------------------------------------------------------------------------
(* The endpoints of routers/api.py that probe one target *)

\* `if iterations < 1 or iterations > 100`, `if concurrent < 1 or concurrent > 100`
MinCount == 1
MaxCount == 100

\* The ids and the counts a request may carry; no connection has id 0.
RequestIds == 0..MaxTargets
RequestCounts == {MinCount - 1, MinCount, MaxCount + 1}

\* db_manager.get_connection(connection_id): the connection, or None
get_connection(connection_id) ==
    IF connection_id \in TargetIds THEN Some(DatabaseConnection(connection_id)) ELSE None

\* region_mapping.get_region_coordinates, for the regions of the targets
get_region_coordinates(region) ==
    IF region = <<"eu-west-1">> THEN Some(<<"lat 53.4084", "lng -8.2439">>) ELSE None

\* coords = get_region_coordinates(connection.region) if connection.region else None
Coords(connection) ==
    IF connection.region # None THEN get_region_coordinates(connection.region[1]) ELSE None

JSONResponse(content, status_code) == [status_code |-> status_code, content |-> content]

NotFound ==
    JSONResponse([success |-> FALSE, error |-> <<"Database connection not found">>], 404)

BadCount(kind) ==
    JSONResponse(
        [success |-> FALSE,
         error |-> IF kind = "latency"
                   THEN <<"Iterations must be between 1 and 100">>
                   ELSE <<"Concurrent connections must be between 1 and 100">>],
        400)

\* Mutant: a count of zero passes.
ValidCount_FromZero(n) == ~(n < MinCount - 1 \/ n > MaxCount)

ValidCount(n) == ~(n < MinCount \/ n > MaxCount)

\* config.get_dsn(region_id) called as get_dsn(): Python raises TypeError
\* before the body runs.
get_dsn ==
    Escaped(Error(<<"get_dsn() missing 1 required positional argument: 'region_id'">>))

\* save_connection_check, save_latency_check, save_load_test_check and
\* save_health_metrics_check: `dsn = get_dsn()` stands before their `try`, so
\* what it raises reaches the caller.
save_check(r) == IF get_dsn.status = "raised" THEN get_dsn ELSE Returned(None)

\* `if coords: result["coords"] = coords`
WithCoords(r, coords) ==
    IF coords # None
    THEN [k \in DOMAIN r \cup {"coords"} |-> IF k = "coords" THEN coords ELSE r[k]]
    ELSE r

\* The `except Exception as e` of the endpoint.
EndpointExcept(request, exc, coords) ==
    IF request.kind = "health"
    THEN JSONResponse(
            [success |-> FALSE,
             error |-> <<"Health check failed: ">> \o exc.msg,
             connection_id |-> request.connection_id,
             coords |-> coords],
            500)
    ELSE JSONResponse([success |-> FALSE, error |-> exc.msg, coords |-> coords], 500)

\* `if result.get("success"):` the report is handed to save_*_check.
Saved(r) == Success(r)

\* The body of the endpoint's `try` after the probe returned `r`.
AfterProbe(request, r, coords) ==
    LET saved == save_check(r)
        failed == Saved(r) /\ saved.status = "raised"
    IN  IF request.kind = "health"
        THEN LET r1 == IF failed
                       THEN [r EXCEPT !.warnings =
                                Append(@, <<"Failed to save health metrics: ">> \o saved.exc.msg)]
                       ELSE r
             IN  JSONResponse(WithCoords(r1, coords), IF Success(r1) THEN 200 ELSE 503)
        ELSE IF failed
             THEN EndpointExcept(request, saved.exc, coords)
             ELSE JSONResponse(WithCoords(r, coords), 200)

Rejected(request, resp) ==
    /\ op' = "rejected"
    /\ endpoint' = request
    /\ response' = resp
    /\ UNCHANGED <<target, conns, ret, sw_out, faults, saves>>
    /\ UNCHANGED <<hvars, tvars, avars, lvars, pvars, cvars, mvars, svars>>

Accepted(request) ==
    /\ endpoint' = request
    /\ UNCHANGED <<response, saves>>

\* POST /test-database/{connection_id}
RequestTest(id) ==
    LET request == [kind |-> "test", connection_id |-> id, count |-> 0]
    IN  IF get_connection(id) = None
        THEN op = "idle" /\ Rejected(request, NotFound)
        ELSE InvokeTest(id) /\ Accepted(request)

\* POST /health-check/{connection_id}
RequestHealth(id) ==
    LET request == [kind |-> "health", connection_id |-> id, count |-> 0]
    IN  IF get_connection(id) = None
        THEN op = "idle" /\ Rejected(request, NotFound)
        ELSE InvokeHealth(id) /\ Accepted(request)

\* POST /latency-test/{connection_id}?iterations=n
RequestLatency(id, n) ==
    LET request == [kind |-> "latency", connection_id |-> id, count |-> n]
    IN  IF get_connection(id) = None
        THEN op = "idle" /\ Rejected(request, NotFound)
        ELSE IF ~ValidCount(n)
        THEN op = "idle" /\ Rejected(request, BadCount("latency"))
        ELSE InvokeLatency(id, n) /\ Accepted(request)

\* POST /load-test/{connection_id}?concurrent=c
RequestLoad(id, c) ==
    LET request == [kind |-> "load", connection_id |-> id, count |-> c]
    IN  IF get_connection(id) = None
        THEN op = "idle" /\ Rejected(request, NotFound)
        ELSE IF ~ValidCount(c)
        THEN op = "idle" /\ Rejected(request, BadCount("load"))
        ELSE InvokeLoad(id, c) /\ Accepted(request)

\* The probe has ended: the rest of the `try`, or the `except`, and the
\* response.
Respond ==
    /\ endpoint.kind # "none" /\ response = NoResponse /\ ret.status # "none"
    /\ response' = IF ret.status = "returned"
                   THEN AfterProbe(endpoint, ret.value, Coords(target))
                   ELSE EndpointExcept(endpoint, ret.exc, Coords(target))
    /\ saves' = IF ret.status = "returned" /\ Saved(ret.value)
                THEN Append(saves, [test_type |-> endpoint.kind, result |-> ret.value])
                ELSE saves
    /\ UNCHANGED <<op, target, conns, ret, sw_out, faults, endpoint>>
    /\ UNCHANGED <<hvars, tvars, avars, lvars, pvars, cvars, mvars, svars>>

EndpointNext ==
    \/ \E id \in RequestIds : RequestTest(id)
    \/ \E id \in RequestIds : RequestHealth(id)
    \/ \E id \in RequestIds, n \in RequestCounts : RequestLatency(id, n)
    \/ \E id \in RequestIds, c \in RequestCounts : RequestLoad(id, c)
    \/ Respond

-----------------------------------------------------------------------------
(* routers/api.py: health_check_all_databases *)

\* measure_connection_latency(conn): `iterations: int = 5`
DefaultIterations == 5

\* What get_all_connections() gives: nothing, one remote target, a remote
\* target followed by one that has no password.
SweepLists == {<<>>, <<2>>, <<2, 1>>}

\* `if isinstance(x, Exception): x = {"success": False, "error": str(x)}`
Gathered(out) ==
    IF out.status = "returned" THEN out.value
    ELSE [success |-> FALSE, error |-> out.exc.msg]

\* `if "warnings" not in health_result: health_result["warnings"] = []`, and
\* the append.
WithWarning(r, w) ==
    IF "warnings" \in DOMAIN r
    THEN [r EXCEPT !.warnings = Append(@, w)]
    ELSE [k \in DOMAIN r \cup {"warnings"} |-> IF k = "warnings" THEN <<w>> ELSE r[k]]

\* save_health_metrics_check(health_result) inside its own try/except.
AfterHealthSave(health_result) ==
    LET saved == save_check(health_result)
    IN  IF Saved(health_result) /\ saved.status = "raised"
        THEN WithWarning(health_result,
                         <<"Failed to save health metrics: ">> \o saved.exc.msg)
        ELSE health_result

\* Mutant: one of the two probes succeeding makes the target healthy.
SweepEntry_EitherProbe(connection, connection_result, health_result) ==
    [id |-> StrOfInt(connection.id),
     name |-> connection.name,
     host |-> connection.host,
     port |-> connection.port,
     region |-> connection.region,
     cloud_provider |-> connection.cloud_provider,
     connection_test |-> connection_result,
     health_metrics |-> health_result,
     overall_status |-> IF Success(connection_result) \/ Success(health_result)
                        THEN "healthy" ELSE "unhealthy"]
SweepEntry(connection, connection_result, health_result) ==
    [id |-> StrOfInt(connection.id),
     name |-> connection.name,
     host |-> connection.host,
     port |-> connection.port,
     region |-> connection.region,
     cloud_provider |-> connection.cloud_provider,
     connection_test |-> connection_result,
     health_metrics |-> health_result,
     overall_status |-> IF Success(connection_result) /\ Success(health_result)
                        THEN "healthy" ELSE "unhealthy"]

SweepResponse(cs, rs) ==
    JSONResponse(
        [results |-> rs,
         total_databases |-> Len(cs),
         healthy_databases |->
            Cardinality({i \in 1..Len(rs) : rs[i].overall_status = "healthy"}),
         unhealthy_databases |->
            Cardinality({i \in 1..Len(rs) : rs[i].overall_status = "unhealthy"}),
         timestamp |-> <<"now">>],
        200)

\* GET /health-all-databases: the first loop only builds the coroutine
\* objects, none of them runs before it is handed to gather().
CallSweep(cs) ==
    /\ op = "idle"
    /\ op' = "sweep"
    /\ connections' = cs
    /\ results' = <<>>
    /\ sw_i' = 1
    /\ sw_pc' = "loop"
    /\ UNCHANGED <<target, conns, ret, sw_out, faults, ta_pc, ta_i>>
    /\ UNCHANGED <<hvars, tvars, lvars, pvars, cvars, mvars, evars>>

\* `for task_data in health_check_tasks:` gather() starts the two coroutines
\* of this target; after the last target, the response.
SweepLoop ==
    /\ op = "sweep" /\ sw_pc = "loop"
    /\ IF sw_i <= Len(connections)
       THEN /\ sw_pc' = "gathering"
            /\ target' = DatabaseConnection(connections[sw_i])
            /\ sw_out' = NotGathered
            /\ h_pc' = "start"
            /\ result' = HealthInitialResult(DatabaseConnection(connections[sw_i]))
            /\ attempts' = [s \in SubQuerySet |-> 0]
            /\ outcome' = [s \in SubQuerySet |-> "none"]
            /\ l_pc' = "start"
            /\ l_n' = DefaultIterations
            /\ UNCHANGED response
       ELSE /\ sw_pc' = "done"
            /\ response' = SweepResponse(connections, results)
            /\ UNCHANGED <<target, sw_out, h_pc, result, attempts, outcome, l_pc, l_n>>
    /\ UNCHANGED <<op, conns, ret, faults, sw_i, endpoint, saves>>
    /\ UNCHANGED <<h_sub, h_await, h_conn, timings, l_await, l_conn, l_exc>>
    /\ UNCHANGED <<tvars, avars, pvars, cvars, mvars>>

\* gather() resumes once both coroutines have ended: the save of a successful
\* health report, and the entry of this target.
SweepCollect ==
    /\ op = "sweep" /\ sw_pc = "gathering"
    /\ sw_out.health.status # "none" /\ sw_out.latency.status # "none"
    /\ LET health_result == Gathered(sw_out.health)
           connection_result == Gathered(sw_out.latency)
       IN  /\ saves' = IF Saved(health_result)
                       THEN Append(saves, [test_type |-> "health", result |-> health_result])
                       ELSE saves
           /\ results' = Append(results,
                            SweepEntry(target, connection_result,
                                       AfterHealthSave(health_result)))
    /\ sw_i' = sw_i + 1
    /\ sw_pc' = "loop"
    /\ h_pc' = "none"
    /\ l_pc' = "none"
    /\ UNCHANGED <<op, target, conns, ret, sw_out, faults, endpoint, response>>
    /\ UNCHANGED <<h_sub, result, h_await, h_conn, attempts, outcome>>
    /\ UNCHANGED <<l_n, timings, l_await, l_conn, l_exc>>
    /\ UNCHANGED <<ta_pc, connections, ta_i>>
    /\ UNCHANGED <<tvars, pvars, cvars, mvars>>

SweepNext ==
    \/ \E cs \in SweepLists : CallSweep(cs)
    \/ SweepLoop
    \/ SweepCollect

-----------------------------------------------------------------------------
(* _is_privilege_error, called on its own *)

UpperLetters ==
    {"A","B","C","D","E","F","G","H","I","J","K","L","M",
     "N","O","P","Q","R","S","T","U","V","W","X","Y","Z"}
UpperChar(c) ==
    IF \E u \in UpperLetters : LowerChar(u) = c
    THEN CHOOSE u \in UpperLetters : LowerChar(u) = c
    ELSE c
\* The ways a server or driver may case a message.
Cased(s, casing) ==
    CASE casing = "lower" -> s
      [] casing = "upper" -> [i \in 1..Len(s) |-> UpperChar(s[i])]
      [] casing = "title" -> <<UpperChar(s[1])>> \o Tail(s)
Casings == {"lower", "upper", "title"}

Prefixes == {<<>>, <<"E","R","R","O","R",":"," ">>}
Suffixes == {<<>>, <<" ","f","o","r"," ","r","e","l","a","t","i","o","n"," ","x">>}
\* Messages about something else, or just short of an indicator.
OtherCores ==
    {MsgConnectionRefused,
     <<"p","e","r","m","i","s","s","i","o","n"," ","d","e","n","i","e">>,
     <<"n","o","t"," ","a","u","t","h","o","r","i","s","e","d">>,
     <<"p","r","i","v","i","l","e","g">>}
Cores == {privilege_indicators[k] : k \in 1..Len(privilege_indicators)} \cup OtherCores

\* The messages _is_privilege_error is called with.
ErrorMessages ==
    {pre \o Cased(core, casing) \o post :
        pre \in Prefixes, core \in Cores, casing \in Casings, post \in Suffixes}

CallClassify(m) ==
    /\ op = "idle"
    /\ op' = "classify"
    /\ error_msg' = m
    /\ UNCHANGED <<target, conns, ret, sw_out, faults>>
    /\ UNCHANGED <<hvars, tvars, avars, lvars, pvars, evars, svars, mvars>>

Classify ==
    /\ op = "classify" /\ ret = NotReturned
    /\ ret' = Returned(is_privilege_error(error_msg)) /\ sw_out' = sw_out
    /\ UNCHANGED <<op, target, conns, faults>>
    /\ UNCHANGED <<hvars, tvars, avars, lvars, pvars, cvars, mvars, svars, evars>>

ClassifyNext ==
    \/ \E m \in ErrorMessages : CallClassify(m)
    \/ Classify

-----------------------------------------------------------------------------
(* db_manager.py: the file-backed DatabaseManager *)

MaxCalls == 3

NoCall == [fn |-> "none"]

\* Fernet under the key of the .key file: a token decrypts to the text it was
\* made from, and nothing else decrypts.
Encrypt(data) == <<"gAAAAA">> \o data
IsToken(s) == Len(s) >= 1 /\ s[1] = "gAAAAA"
Decrypt(encrypted_data) == Tail(encrypted_data)

\* The DatabaseConnection objects save_connection is called with.
ManagerIds == {<<"db_a">>, <<"db_b">>}
ManagerPasswords == {<<"testpass">>, <<"other">>}
ManagerConnection(id, password, is_active) ==
    [id |-> id,
     name |-> <<"Test Connection ">> \o id,
     host |-> HostLocal,
     port |-> 5432,
     database |-> <<"testdb">>,
     username |-> <<"testuser">>,
     password |-> password,
     is_active |-> is_active]
ManagerConnections ==
    {ManagerConnection(id, password, is_active) :
        id \in ManagerIds, password \in ManagerPasswords, is_active \in BOOLEAN}

\* load_connections(): {} when there is no file; the file's entries with
\* their passwords decrypted; {} when a password does not decrypt.
load_connections(file) ==
    IF file = None THEN <<>>
    ELSE LET data == file[1]
         IN  IF \A k \in 1..Len(data) : IsToken(data[k].password)
             THEN [k \in 1..Len(data) |->
                      [data[k] EXCEPT !.password = Decrypt(data[k].password)]]
             ELSE <<>>

\* connections[connection.id] = connection_data, on a dict that keeps the
\* order of insertion.
Put(dict, connection_data) ==
    IF \E k \in 1..Len(dict) : dict[k].id = connection_data.id
    THEN [k \in 1..Len(dict) |->
            IF dict[k].id = connection_data.id THEN connection_data ELSE dict[k]]
    ELSE Append(dict, connection_data)

\* The connection_data of save_connection: the connection with its password
\* encrypted.
ConnectionData(connection) ==
    [connection EXCEPT !.password = Encrypt(connection.password)]

\* The active connections of load_connections(), as DatabaseConnection
\* objects.
get_all_connections(file) ==
    SelectSeq(load_connections(file), LAMBDA conn_data : conn_data.is_active)

\* db_manager = DatabaseManager(): nothing is stored yet.
NewManager ==
    /\ op = "idle"
    /\ op' = "manager"
    /\ storage' = None
    /\ UNCHANGED <<m_call, m_n>>
    /\ UNCHANGED <<target, conns, ret, sw_out, faults>>
    /\ UNCHANGED <<hvars, tvars, avars, lvars, pvars, cvars, evars, svars>>

\* save_connection(connection): what load_connections() gave, with the new
\* entry, is written to connections.json.
SaveConnection(connection) ==
    /\ op = "manager" /\ m_n < MaxCalls
    /\ m_n' = m_n + 1
    /\ m_call' = [fn |-> "save_connection", connection |-> connection]
    /\ storage' = Some(Put(load_connections(storage), ConnectionData(connection)))
    /\ ret' = Returned(TRUE)
    /\ UNCHANGED <<op, target, conns, sw_out, faults>>
    /\ UNCHANGED <<hvars, tvars, avars, lvars, pvars, cvars, evars, svars>>

GetAllConnections ==
    /\ op = "manager" /\ m_n < MaxCalls
    /\ m_n' = m_n + 1
    /\ m_call' = [fn |-> "get_all_connections"]
    /\ ret' = Returned(get_all_connections(storage))
    /\ UNCHANGED <<op, target, conns, sw_out, faults, storage>>
    /\ UNCHANGED <<hvars, tvars, avars, lvars, pvars, cvars, evars, svars>>

ManagerNext ==
    \/ NewManager
    \/ \E connection \in ManagerConnections : SaveConnection(connection)
    \/ GetAllConnections

-----------------------------------------------------------------------------
(* Specification *)

Init ==
    /\ op = "idle"
    /\ target = DatabaseConnection(1)
    /\ conns = <<>>
    /\ ret = NotReturned
    /\ faults = {}
    /\ h_pc = "none"
    /\ h_sub = "cache"
    /\ result = HealthInitialResult(DatabaseConnection(1))
    /\ h_await = NoAwait
    /\ h_conn = 0
    /\ attempts = [s \in SubQuerySet |-> 0]
    /\ outcome = [s \in SubQuerySet |-> "none"]
    /\ t_pc = "none"
    /\ t_await = NoAwait
    /\ t_conn = 0
    /\ t_row = ServerRow
    /\ t_latency = 0
    /\ t_result = NotReturned
    /\ ta_pc = "none"
    /\ connections = <<>>
    /\ ta_i = 0
    /\ results = <<>>
    /\ l_pc = "none"
    /\ l_n = 0
    /\ timings = <<>>
    /\ l_await = NoAwait
    /\ l_conn = 0
    /\ l_exc = None
    /\ ld_pc = "none"
    /\ ld_n = 0
    /\ p_pc = [i \in Probes |-> "none"]
    /\ p_await = [i \in Probes |-> NoAwait]
    /\ p_conn = [i \in Probes |-> 0]
    /\ p_exc = [i \in Probes |-> None]
    /\ p_out = [i \in Probes |-> NotReturned]
    /\ first_exc = None
    /\ error_msg = <<>>
    /\ endpoint = NoRequest
    /\ response = NoResponse
    /\ saves = <<>>
    /\ sw_pc = "none"
    /\ sw_i = 0
    /\ sw_out = NotGathered
    /\ storage = None
    /\ m_call = NoCall
    /\ m_n = 0

Next ==
    \/ HealthNext
    \/ TestNext
    \/ TestAllNext
    \/ LatencyNext
    \/ LoadNext
    \/ ClassifyNext
    \/ EndpointNext
    \/ SweepNext
    \/ ManagerNext

Spec == Init /\ [][Next]_vars

-----------------------------------------------------------------------------
(* Health snapshot: properties *)

HealthReturned == op = "health" /\ ret.status = "returned"
\* The snapshot opened its connection and ran its sub-queries to the end.
HealthRan == HealthReturned /\ h_conn # 0
HealthClosedCleanly == HealthRan /\ conns[h_conn] = "closed"
HealthCloseFailed == HealthRan /\ conns[h_conn] = "aborted"

MetricKeys ==
    {"cache_hit_ratio", "active_connections", "idle_connections",
     "total_connections", "db_size"}
\* A report's field is null or absent.
Null(report, k) == k \notin DOMAIN report \/ report[k] = None

Issued == {s \in SubQuerySet : attempts[s] > 0}
AllSubQueriesFailed == \A s \in Issued : outcome[s] = "failed"
FailedInOrder == SelectSeq(SubQueries, LAMBDA s : outcome[s] = "failed")

\* C1 as stated: when every sub-query fails, success is false and error is
\* the concatenation of the warnings.
C1_Original ==
    (HealthRan /\ AllSubQueriesFailed) =>
        /\ ret.value.success = FALSE
        /\ ret.value.error = Concat(ret.value.warnings)

\* C1 amended: when every sub-query fails, success is false; error is the
\* fixed sentence "Unable to retrieve any health metrics. " followed by the
\* warnings joined with "; ", or, when closing the connection failed, the
\* message of that failure.
C1_AllFailed ==
    (HealthRan /\ AllSubQueriesFailed) =>
        /\ ret.value.success = FALSE
        /\ HealthClosedCleanly =>
              /\ Len(ret.value.warnings) = Cardinality(Issued)
              /\ ret.value.error =
                    <<"Unable to retrieve any health metrics. ">>
                        \o Join(<<"; ">>, ret.value.warnings)
        /\ HealthCloseFailed => ret.value.error \in Messages

C1_Witness ==
    /\ HealthClosedCleanly /\ AllSubQueriesFailed
    /\ Len(ret.value.warnings) = 4

C3_SuccessIffData ==
    HealthReturned =>
        (ret.value.success = FALSE <=> \A k \in MetricKeys : Null(ret.value, k))

C3_Witness ==
    /\ HealthClosedCleanly
    /\ ret.value.success = TRUE
    /\ ret.value.db_size # None
    /\ ret.value.cache_hit_ratio = None

\* The report fields a sub-query sets.
FieldsOf(s) ==
    CASE s = "cache" -> {"cache_hit_ratio"}
      [] s = "conn" -> {"active_connections", "idle_connections", "total_connections"}
      [] s = "size" -> {"db_size"}
      [] s = "ext" -> {}
      [] s = "stat" -> {"pg_stat_statements"}

HealthPastSubQueries == op = "health" /\ h_pc \in {"judge", "closing", "done"} /\ h_conn # 0

C4_EachAttemptedOnce ==
    /\ \A s \in SubQuerySet : attempts[s] <= 1
    /\ HealthPastSubQueries =>
          \A s \in {"cache", "conn", "size", "ext"} : attempts[s] = 1
    /\ op = "health" =>
          \A s \in SubQuerySet :
              outcome[s] = "failed" => \A k \in FieldsOf(s) : result[k] = None

\* The step in which sub-query h_sub fails.
SubQueryFails == h_pc = "waiting" /\ outcome'[h_sub] = "failed" /\ outcome[h_sub] = "none"

C4_FailureChangesNoField ==
    SubQueryFails =>
        /\ \A k \in MetricKeys \cup {"pg_stat_statements"} : result'[k] = result[k]
        /\ h_pc' \in {"query", "judge"}

\* C4: once the connection is open, cache-hit ratio, connection counts,
\* database size and the extension check are each attempted exactly once
\* whatever fails, and a failing sub-query leaves its own field null and every
\* other field as it was.
C4_Independent == [] C4_EachAttemptedOnce /\ [][C4_FailureChangesNoField]_vars

C4_Witness ==
    /\ HealthPastSubQueries
    /\ outcome["cache"] = "failed" /\ outcome["conn"] = "ok"
    /\ outcome["size"] = "failed" /\ outcome["ext"] = "ok"

\* w starts with the label of sub-probe s.
HasLabel(w, s) == Len(w) >= 1 /\ SubSeq(w, 1, 1) = Label(s)

\* report.get("warnings", [])
WarningsOf(report) == IF "warnings" \in DOMAIN report THEN report.warnings ELSE <<>>

WarningsMatchFailures(report) ==
    /\ Len(WarningsOf(report)) = Len(FailedInOrder)
    /\ \A i \in 1..Len(FailedInOrder) :
          HasLabel(WarningsOf(report)[i], FailedInOrder[i])

\* C5 as stated: every report's warnings are the failed sub-probes', one each,
\* in the order attempted.
C5_Original == HealthReturned => WarningsMatchFailures(ret.value)

\* C5 amended: the warnings of a report are one entry per failed sub-probe and
\* none for a successful one, in the order attempted, when the snapshot opened
\* its connection and closed it without error; a report of a failed connect or
\* a failed close carries the single warning of that failure instead, and the
\* report of a missing password carries none.
C5_Warnings ==
    /\ HealthClosedCleanly => WarningsMatchFailures(ret.value)
    /\ (HealthReturned /\ ~HealthClosedCleanly /\ HasPassword(target)) =>
          /\ Len(ret.value.warnings) = 1
          /\ \/ ret.value.warnings[1] = <<"Connection timeout">>
             \/ \E m \in Messages : ret.value.warnings[1] = <<"Connection failed: ">> \o m
    /\ (HealthReturned /\ ~HasPassword(target)) => "warnings" \notin DOMAIN ret.value

C5_Witness ==
    /\ HealthClosedCleanly
    /\ FailedInOrder = <<"cache", "size", "stat">>
    /\ Len(ret.value.warnings) = 3

-----------------------------------------------------------------------------
(* Connection test, latency loop, load test: properties *)

NoneOpen == \A k \in 1..Len(conns) : conns[k] # "open"

\* C6: test_connection has closed the connection it opened when it returns,
\* whether the diagnostic query succeeded or failed.
C6_ClosedBeforeReturn ==
    (op \in {"test", "testall"} /\ t_pc = "done" /\ t_conn # 0) =>
        conns[t_conn] # "open"

\* C7: when run_connection_load_test returns, with a success or a failure
\* report, every probe it launched has ended and none of their connections
\* is open.
C7_AllProbesEnded ==
    (op = "load" /\ ret.status = "returned") =>
        /\ \A i \in Tasks : p_pc[i] = "done"
        /\ NoneOpen

\* The await leaves its operation waiting for ever.
Blocked(a) == a.kind \in {"connect", "query"} /\ ~Resumes(a)

\* C8: against a target whose connect or query never completes,
\* test_connection, measure_connection_latency and run_connection_load_test
\* do not hang: no connect and no query of theirs waits without a bound.
C8_NeverBlocked ==
    /\ op \in {"test", "testall"} => ~Blocked(t_await)
    /\ op = "latency" => ~Blocked(l_await)
    /\ op = "load" => \A i \in Probes : ~Blocked(p_await[i])

ProbeOps == {"test", "health", "latency", "load"}
FailureReport(report) == ~Success(report) /\ "error" \in DOMAIN report

\* C9 as stated: no failure of a connect, a query or a close escapes as an
\* exception, and each makes the report a failure with its error set.
C9_Original ==
    op \in ProbeOps =>
        /\ ret.status # "raised"
        /\ (ret.status = "returned" /\ faults # {}) => FailureReport(ret.value)

\* C9 amended: no failure of a connect, a query or a close escapes as an
\* exception from the four operations.  In test_connection,
\* measure_connection_latency and run_connection_load_test each such failure
\* makes the report a failure with its error set; in
\* get_connection_health_metrics a failed connect or close does, while a
\* failed sub-query is recorded as a warning and the report is a failure,
\* with its error set, only when no metric was retrieved.
C9_NoEscape ==
    /\ op \in ProbeOps => ret.status # "raised"
    /\ (op \in {"test", "latency", "load"} /\ ret.status = "returned" /\ faults # {}) =>
          FailureReport(ret.value)
    /\ (HealthReturned /\ \E f \in faults : f.stage \in {"connect", "close"}) =>
          FailureReport(ret.value)
    /\ (HealthClosedCleanly /\ faults # {}) =>
          /\ ret.value.warnings # <<>>
          /\ ret.value.success = FALSE <=> \A k \in MetricKeys : ret.value[k] = None
          /\ ret.value.success = FALSE => "error" \in DOMAIN ret.value

C9_Witness ==
    /\ HealthClosedCleanly
    /\ [stage |-> "query", kind |-> "error"] \in faults
    /\ ret.value.success = TRUE

-----------------------------------------------------------------------------
(* Multi-target test: properties *)

LatencyOf(entry) == entry.test_result.latency_ms
\* The place of the entry's target in the list of targets.
PlaceOf(entry) == CHOOSE k \in 1..Len(connections) : StrOfInt(connections[k]) = entry.id

\* Successes first, by ascending latency; then failures, in target order.
Ranked(rs) ==
    \A i, j \in 1..Len(rs) :
        i < j =>
            LET a == rs[i]
                b == rs[j]
            IN  \/ Success(a.test_result) /\ ~Success(b.test_result)
                \/ /\ Success(a.test_result) /\ Success(b.test_result)
                   /\ LatencyOf(a) <= LatencyOf(b)
                \/ /\ ~Success(a.test_result) /\ ~Success(b.test_result)
                   /\ PlaceOf(a) < PlaceOf(b)

\* C10: test_all_databases returns the outcomes ranked: the successful ones
\* first in ascending latency_ms, then the failed ones in target order; for
\* [A, B, C] with A failing and B slower than C, the order is [C, B, A].
C10_Ranked ==
    (op = "testall" /\ ret.status = "returned") => Ranked(ret.value.results)


-----------------------------------------------------------------------------
(* Latency loop and load test: the reports *)

Statistics == {"min_ms", "max_ms", "avg_ms"}
AttemptFailed == \E f \in faults : f.stage \in {"connect", "query"}

\* C13: in measure_connection_latency and run_connection_load_test, a single
\* failed attempt (connect or query, error or timeout) makes the whole report
\* a failure without min/max/avg, and a success report is never computed from
\* fewer timings than the count asked for.
C13_NoPartialReport ==
    /\ (op \in {"latency", "load"} /\ ret.status = "returned" /\ AttemptFailed) =>
          /\ ~Success(ret.value)
          /\ Statistics \cap DOMAIN ret.value = {}
    /\ (op = "latency" /\ ret.status = "returned" /\ Success(ret.value)) =>
          /\ Len(timings) = l_n
          /\ Len(ret.value.timings) = l_n
          /\ ret.value.iterations = l_n
    /\ (op = "load" /\ ret.status = "returned" /\ Success(ret.value)) =>
          /\ \A i \in Tasks : p_out[i].status = "returned"
          /\ ret.value.concurrent = ld_n

\* The second iteration fails after the first one was timed.
C13_Witness ==
    /\ op = "latency" /\ ret.status = "returned"
    /\ timings # <<>>
    /\ AttemptFailed
    /\ ~Success(ret.value)

\* C14: with n >= 1 iterations all succeeding, the latency report has
\* min_ms <= avg_ms <= max_ms, n timings, and min_ms and max_ms are the
\* smallest and the largest of the timings it lists.
C14_Statistics ==
    (op = "latency" /\ ret.status = "returned" /\ Success(ret.value) /\ l_n >= 1) =>
        LET report == ret.value
            listed == {report.timings[i] : i \in 1..Len(report.timings)}
        IN  /\ report.min_ms <= report.avg_ms
            /\ report.avg_ms <= report.max_ms
            /\ Len(report.timings) = l_n
            /\ report.min_ms \in listed /\ \A t \in listed : report.min_ms <= t
            /\ report.max_ms \in listed /\ \A t \in listed : report.max_ms >= t

\* Two iterations, the first one the slower.
C14_Witness ==
    /\ op = "latency" /\ ret.status = "returned" /\ Success(ret.value)
    /\ l_n = 2
    /\ ret.value.timings[1] > ret.value.timings[2]

\* C15 as stated: queries_per_second is round(c / (total_time_ms / 1000), 2)
\* of the total_time_ms the same report gives (a value rounded to hundredths).
C15_Original ==
    (op = "load" /\ ret.status = "returned" /\ Success(ret.value)) =>
        ret.value.queries_per_second =
            RoundDiv(10000000 * ret.value.concurrent, ret.value.total_time_ms)

\* C15 amended: queries_per_second is round(c / (total_time / 1000), 2) of the
\* elapsed total_time before it is rounded; the report's total_time_ms is that
\* same total_time rounded to two places.
C15_QueriesPerSecond ==
    (op = "load" /\ ret.status = "returned" /\ Success(ret.value)) =>
        \E total_time \in Times :
            /\ ret.value.total_time_ms = Round2(total_time, 1)
            /\ ret.value.queries_per_second =
                  RoundDiv(100000000 * ret.value.concurrent, total_time)

\* A total time that rounding changes.
C15_Witness ==
    /\ op = "load" /\ ret.status = "returned" /\ Success(ret.value)
    /\ ret.value.concurrent = 2
    /\ ret.value.queries_per_second #
           RoundDiv(10000000 * ret.value.concurrent, ret.value.total_time_ms)

-----------------------------------------------------------------------------
(* The privilege classifier: properties *)

\* The seven substrings, as the claim lists them.
ClaimedSubstrings ==
    { <<"p","e","r","m","i","s","s","i","o","n"," ","d","e","n","i","e","d">>,
      <<"i","n","s","u","f","f","i","c","i","e","n","t"," ",
        "p","r","i","v","i","l","e","g","e">>,
      <<"m","u","s","t"," ","b","e"," ","s","u","p","e","r","u","s","e","r">>,
      <<"a","c","c","e","s","s"," ","d","e","n","i","e","d">>,
      <<"m","u","s","t"," ","b","e"," ","o","w","n","e","r">>,
      <<"p","r","i","v","i","l","e","g","e">>,
      <<"n","o","t"," ","a","u","t","h","o","r","i","z","e","d">> }

\* The message was built around one of the seven substrings, in some casing.
BuiltAroundClaimed(m) ==
    \E pre \in Prefixes, c \in ClaimedSubstrings, casing \in Casings, post \in Suffixes :
        m = pre \o Cased(c, casing) \o post

\* C19: _is_privilege_error is true of a message exactly when the message,
\* lower-cased, contains one of the seven substrings; "permission denied for
\* relation x" is a privilege error and "connection refused" is not.
C19_Classifier ==
    (op = "classify" /\ ret.status = "returned") =>
        /\ ret.value = TRUE <=> BuiltAroundClaimed(error_msg)
        /\ error_msg = MsgPermissionDenied => ret.value = TRUE
        /\ error_msg = MsgConnectionRefused => ret.value = FALSE

\* A message in capitals is classified as a privilege error.
C19_Witness ==
    /\ op = "classify" /\ ret.status = "returned"
    /\ ret.value = TRUE
    /\ error_msg = Cased(error_msg, "upper")

-----------------------------------------------------------------------------
(* Transport encryption: properties *)

\* The hosts of the targets that are not on this machine.
RemoteHosts == {HostRemote, HostNamedPostgres}
Encrypted(a) == a.ssl \in {"verify", "no_verify"}
\* The connect agrees with where its target is.
EncryptedIffRemote(a) ==
    a.kind = "connect" => (Encrypted(a) <=> target.host \in RemoteHosts)

\* C20: test_connection_with_password, get_connection_health_metrics,
\* measure_connection_latency and run_connection_load_test connect with
\* transport encryption to every remote host, and without it only to local
\* hosts.
C20_EncryptedToRemote ==
    /\ EncryptedIffRemote(t_await)
    /\ EncryptedIffRemote(h_await)
    /\ EncryptedIffRemote(l_await)
    /\ \A i \in Probes : EncryptedIffRemote(p_await[i])

-----------------------------------------------------------------------------
(* The endpoints: properties *)

Responded == endpoint.kind # "none" /\ response # NoResponse
\* The endpoint's probe returned the report it answers with.
RespondedTo(kind) == Responded /\ endpoint.kind = kind /\ ret.status = "returned"

\* The response to a probe report when saving it goes well: the report, with
\* the coordinates when there are some.
ResponseWhenSaved(kind, r, coords) ==
    JSONResponse(WithCoords(r, coords),
                 IF kind = "health" /\ ~Success(r) THEN 503 ELSE 200)

\* C16: a failure of save_connection_check, save_latency_check,
\* save_load_test_check or save_health_metrics_check, be it in obtaining the
\* DSN, connecting or inserting, leaves the response as it is when the save
\* succeeds: the same body, the same status.
C16_SaveNeverChangesResponse ==
    \A kind \in {"test", "health", "latency", "load"} :
        RespondedTo(kind) =>
            response = ResponseWhenSaved(kind, ret.value, Coords(target))

\* The save_*_check for this kind of probe was called once with this report.
SavedOnce(kind, report) ==
    Cardinality({k \in 1..Len(saves) :
                    saves[k] = [test_type |-> kind, result |-> report]}) = 1

\* C17: after each successful probe run by an endpoint, for one target or
\* inside test_all_databases, the save_*_check is called once with the
\* probe's report.
C17_SavedAfterSuccess ==
    /\ \A kind \in {"test", "health", "latency", "load"} :
          (RespondedTo(kind) /\ Success(ret.value)) => SavedOnce(kind, ret.value)
    /\ (op = "testall" /\ ret.status = "returned") =>
          \A i \in 1..Len(results) :
              Success(results[i].test_result) => SavedOnce("test", results[i].test_result)

\* The request names no connection, or a count outside 1..100.
BadRequest ==
    /\ endpoint.kind \in {"latency", "load"}
    /\ \/ get_connection(endpoint.connection_id) = None
       \/ endpoint.count \notin 1..100

\* C18: a latency-test or load-test request whose target id is not found, or
\* whose count is outside 1..100, is answered 404 or 400, and no probe is
\* started and no connection opened for it.
C18_RejectedBeforeProbing ==
    BadRequest =>
        /\ response.status_code =
              IF get_connection(endpoint.connection_id) = None THEN 404 ELSE 400
        /\ response.content.success = FALSE
        /\ op = "rejected"
        /\ conns = <<>>
        /\ l_pc = "none" /\ l_await = NoAwait
        /\ ld_pc = "none" /\ \A i \in Probes : p_pc[i] = "none" /\ p_await[i] = NoAwait

\* A known target and a count of 101.
C18_Witness ==
    /\ BadRequest
    /\ endpoint.count = 101
    /\ response.status_code = 400

\* ---------------------------------------------------------------------------
\* C11: test_all_databases invokes the single tests concurrently: the test of
\* a later target can start before the test of an earlier target has
\* finished.  As a state predicate: once the test of the current target is
\* past its connect, the test of every target of the list has been started.
\* test_all_databases awaits each test inside its for loop, so the test of
\* target i+1 starts only after the test of target i has returned.
C11_StartedTogether ==
    (op = "testall" /\ ta_pc = "testing" /\ t_pc \in {"querying", "closing"})
        => ta_i = Len(connections)

\* ---------------------------------------------------------------------------
\* C12: in health_check_all_databases a slow or hung probe against target A
\* never blocks or cancels the probes against another target B.  As a state
\* predicate: while a probe of the sweep waits for a server that does not
\* answer, the probes of every target of the list have been started.
\* The coroutines of a target run only once the loop hands them to gather(),
\* and the loop awaits the gather() of one target before it reaches the next.
SweepStarted(j) == j < sw_i \/ (j = sw_i /\ sw_pc = "gathering")
SweepWaits == op = "sweep" /\ (h_await.tag = "hang" \/ l_await.tag = "hang")
C12_NeverBlocksOthers ==
    SweepWaits => \A j \in 1..Len(connections) : SweepStarted(j)

\* ---------------------------------------------------------------------------
\* C22: when measure_connection_latency or get_connection_health_metrics has
\* returned, with a success or a failure report, no connection it opened is
\* still open (conn.close() has been called on each, in the finally clause);
\* during measure_connection_latency at most one connection is open at any
\* time, and get_connection_health_metrics opens at most one connection per
\* invocation.
OpenConns == {k \in 1..Len(conns) : conns[k] = "open"}
LatencyReturned == op = "latency" /\ ret.status = "returned"
C22_Released ==
    /\ (HealthReturned \/ LatencyReturned) => NoneOpen
    /\ (op = "sweep" /\ sw_out.health.status # "none" /\ h_conn # 0) =>
          conns[h_conn] # "open"
    /\ (op = "sweep" /\ sw_out.latency.status # "none" /\ l_conn # 0) =>
          conns[l_conn] # "open"
    /\ op = "latency" => Cardinality(OpenConns) <= 1
    /\ op = "health" => Len(conns) <= 1

\* The second iteration's query failed: a failure report, two connections
\* opened and closed.
C22_Witness ==
    /\ LatencyReturned /\ ~Success(ret.value)
    /\ Len(conns) = 2 /\ conns[2] = "closed"
    /\ \E f \in faults : f.stage = "query"

\* ---------------------------------------------------------------------------
\* C23: within one measure_connection_latency call the iterations run one
\* after another, each on a fresh connection that is closed before the next
\* iteration's connection is opened, and the i-th entry of the timings list is
\* the measurement of the i-th iteration.
\* The i-th connection opened is the one of the i-th iteration: every earlier
\* one is closed and has its timing; the report lists the timings in that
\* order.
C23_OneAfterAnother ==
    op = "latency" =>
        /\ Len(timings) <= Len(conns)
        /\ \A k \in 1..Len(conns) : conns[k] = "open" => k = Len(conns)
        /\ \A i \in 1..Len(timings) : conns[i] = "closed"
        /\ (ret.status = "returned" /\ Success(ret.value)) =>
              /\ Len(conns) = l_n
              /\ ret.value.timings = [i \in 1..l_n |-> Round2(timings[i], 1)]

\* A connect opens connection number Len(timings) + 1; a timing is appended
\* only when the connection of that iteration has just been closed, and the
\* earlier timings stay where they are.
C23_Step ==
    op = "latency" =>
        /\ Len(conns') > Len(conns) =>
              /\ Len(conns') = Len(timings) + 1
              /\ l_conn' = Len(conns')
              /\ NoneOpen
        /\ timings' # timings /\ l_pc # "start" =>
              /\ Len(timings') = Len(timings) + 1
              /\ SubSeq(timings', 1, Len(timings)) = timings
              /\ l_conn = Len(timings')
              /\ conns[l_conn] = "open" /\ conns'[l_conn] = "closed"

C23_Sequential == [] C23_OneAfterAnother /\ [][C23_Step]_vars

\* Two iterations, the second faster than the first.
C23_Witness ==
    /\ LatencyReturned /\ Success(ret.value)
    /\ l_n = 2
    /\ ret.value.timings[1] > ret.value.timings[2]

\* ---------------------------------------------------------------------------
\* C24: in get_connection_health_metrics the timeout bounds the connect and
\* each sub-query individually, the same quantum for each: a sub-query that
\* times out yields the warning "<sub-probe>: query timeout" for that
\* sub-query only, and the time earlier sub-queries took neither shortens the
\* time allowed to a later one nor makes it skipped.
\* Every connect and sub-query is awaited under its own asyncio.wait_for with
\* the caller's timeout; after a timeout the next sub-query is issued as after
\* an answer, and the pg_stat_statements query is issued exactly when the
\* extension check answered true, whatever timed out before.
TimesOut == op = "health" /\ h_pc = "waiting" /\ h_await.tag = "hang" /\ h_pc' # h_pc
ExtensionResolves == op = "health" /\ h_pc = "waiting" /\ h_sub = "ext" /\ h_pc' # h_pc

C24_EachBounded ==
    op = "health" =>
        /\ h_await.kind \in {"connect", "query"} => h_await.bound = "wait_for"
        /\ HealthPastSubQueries =>
              \A s \in {"cache", "conn", "size", "ext"} : attempts[s] = 1

C24_Step ==
    /\ TimesOut =>
          /\ result'.warnings =
                Append(result.warnings, Label(h_sub) \o <<": query timeout">>)
          /\ h_sub \in {"cache", "conn", "size"} =>
                h_pc' = "query" /\ h_sub' = AfterSubQuery(h_sub, TRUE, None)
    /\ ExtensionResolves =>
          ((h_pc' = "query" /\ h_sub' = "stat")
              <=> (h_await.tag = "ok" /\ h_await.val = TRUE))

C24_PerSubQuery == [] C24_EachBounded /\ [][C24_Step]_vars

\* The first three sub-queries timed out, the extension check answered true
\* and the pg_stat_statements query was run.
C24_Witness ==
    /\ HealthClosedCleanly
    /\ outcome["stat"] = "ok"
    /\ ret.value.warnings =
          <<Label("cache") \o <<": query timeout">>,
            Label("conn") \o <<": query timeout">>,
            Label("size") \o <<": query timeout">> >>

\* ---------------------------------------------------------------------------
\* C25: the warning recorded for a failed health sub-query is decided in this
\* order: a timeout gives "<sub-probe>: query timeout"; otherwise a message
\* the privilege classifier matches gives "<sub-probe>: insufficient
\* privileges"; otherwise the warning is the sub-probe's label followed by
\* the raw error message.
ExpectedWarning(s, a) ==
    IF a.tag = "hang" THEN Label(s) \o <<": query timeout">>
    ELSE IF is_privilege_error(a.msg) THEN Label(s) \o <<": insufficient privileges">>
    ELSE Label(s) \o <<": ">> \o a.msg

C25_Step ==
    (op = "health" /\ SubQueryFails) =>
        result'.warnings = Append(result.warnings, ExpectedWarning(h_sub, h_await))

C25_WarningOrder == [][C25_Step]_vars

\* One sub-query of each kind of failure.
C25_Witness ==
    /\ HealthClosedCleanly
    /\ ret.value.warnings =
          <<Label("cache") \o <<": query timeout">>,
            Label("conn") \o <<": insufficient privileges">>,
            Label("size") \o <<": ">> \o MsgConnectionRefused>>

\* ---------------------------------------------------------------------------
\* C26: a report a probe operation has returned is never mutated afterwards:
\* the endpoints only read it, and add, remove or change no entry of it, its
\* warnings list included.  As a state predicate: the report an endpoint
\* answers with is the report the operation returned.
\* The endpoints set result["coords"] on the report, and append to its
\* warnings when saving fails.
AnsweredWithReport ==
    Responded /\ ret.status = "returned" /\ response.status_code \in {200, 503}
C26_ReportUntouched == AnsweredWithReport => response.content = ret.value

\* ---------------------------------------------------------------------------
\* C27: for a target whose credential is missing (password null or empty),
\* test_connection, get_connection_health_metrics, measure_connection_latency
\* and run_connection_load_test each return a report with success false
\* without attempting any connection to the target.
NothingAwaited ==
    /\ t_await = NoAwait /\ h_await = NoAwait /\ l_await = NoAwait
    /\ \A i \in Probes : p_await[i] = NoAwait
CredentialMissing == target.password = None \/ target.password = Some(<<>>)
StatementsConsistent(r) ==
    /\ r.pg_stat_statements_available = TRUE <=> r.pg_stat_statements # None
    /\ r.pg_stat_statements_available = TRUE <=>
          (outcome["ext"] = "ok" /\ outcome["stat"] = "ok")
C28_AvailableIffList ==
    /\ op = "health" => StatementsConsistent(result)
    /\ HealthClosedCleanly => StatementsConsistent(ret.value)
    /\ op = "health" => (outcome["stat"] # "none" => outcome["ext"] = "ok")

\* The extension is there and its query answered.
C28_Witness ==
    /\ HealthClosedCleanly
    /\ ret.value.pg_stat_statements_available = TRUE
    /\ ret.value.pg_stat_statements = Some(<<"good">>)

\* ---------------------------------------------------------------------------
\* C29: whatever mix of successes, failures and exceptions occurs, the
\* response of test_all_databases and of health_check_all_databases holds
\* exactly one result per configured target, in registry order, and its counts
\* partition the targets: successful_tests + failed_tests = total_databases,
\* healthy_databases + unhealthy_databases = total_databases, where a target
\* is healthy only if both its latency probe and its health snapshot
\* succeeded.
OnePerTarget(content) ==
    /\ Len(content.results) = Len(connections)
    /\ content.total_databases = Len(connections)
    /\ \A i \in 1..Len(connections) :
          content.results[i].id = StrOfInt(connections[i])
SweepResponded == op = "sweep" /\ response # NoResponse
C29_OnePerTarget ==
    /\ (op = "testall" /\ ret.status = "returned") =>
          /\ OnePerTarget(ret.value)
          /\ ret.value.successful_tests + ret.value.failed_tests
                = ret.value.total_databases
          /\ ret.value.successful_tests =
                Cardinality({i \in 1..Len(connections) :
                                Success(ret.value.results[i].test_result)})
    /\ SweepResponded =>
          /\ OnePerTarget(response.content)
          /\ response.content.healthy_databases + response.content.unhealthy_databases
                = response.content.total_databases
          /\ \A i \in 1..Len(connections) :
                LET r == response.content.results[i]
                IN  r.overall_status = "healthy" <=>
                        (Success(r.connection_test) /\ Success(r.health_metrics))
          /\ response.content.healthy_databases =
                Cardinality({i \in 1..Len(connections) :
                                response.content.results[i].overall_status = "healthy"})

\* A sweep of two targets, one healthy and one not.
C29_Witness ==
    /\ SweepResponded
    /\ response.content.healthy_databases = 1
    /\ response.content.unhealthy_databases = 1

\* ---------------------------------------------------------------------------
\* C21: with the file-backed DatabaseManager, after save_connection(c) has
\* returned true, get_all_connections() gives a list that holds a connection
\* with c's id, name, host and port and with the password decrypted back to
\* c's plaintext, provided c is active.
\* save_connection writes the entries load_connections() gave, whose
\* passwords are decrypted, next to the new encrypted one; the next
\* load_connections() fails to decrypt them and gives nothing.
SavedLast ==
    op = "manager" /\ m_call.fn = "save_connection" /\ ret.value = TRUE
Holds(list, c) ==
    \E k \in 1..Len(list) :
        /\ list[k].id = c.id /\ list[k].name = c.name
        /\ list[k].host = c.host /\ list[k].port = c.port
        /\ list[k].password = c.password
C21_RoundTrip ==
    (SavedLast /\ m_call.connection.is_active) =>
        Holds(get_all_connections(storage), m_call.connection)

\* C30: with the file-backed DatabaseManager, save_connection(c) changes only
\* the stored entry whose id is c.id: every connection stored before the call
\* under another id is still stored, unchanged, after the call, also when
\* reading or decrypting the existing store fails during the call.
SavesNow == op = "manager" /\ m_n' = m_n + 1 /\ m_call'.fn = "save_connection"
C30_Step ==
    (SavesNow /\ storage # None) =>
        \A k \in 1..Len(storage[1]) :
            storage[1][k].id # m_call'.connection.id =>
                \E j \in 1..Len(storage'[1]) : storage'[1][j] = storage[1][k]
C30_OthersUntouched == [][C30_Step]_vars
=============================================================================
